---- MODULE Spec2Model ----
(***************************************************************************)
(* A model of zincware/py-track (zntrack): the node lifecycle of           *)
(* zntrack/node.py and zntrack/state.py, the internals round trip of       *)
(* zntrack/core/zntrack.py, graph reproduction, and the experiment run of  *)
(* zntrack/project/zntrack_project.py.                                     *)
(***************************************************************************)
EXTENDS Integers, Sequences, FiniteSets, TLC

VARIABLES
    \* the node lifecycle (zntrack/node.py, zntrack/state.py)
    inst,       \* the node instance the process holds (a new one replaces it)
    disk,       \* workspace files of the node: params section, outs file
    nodeMeta,   \* <nwd>/node-meta.json: whether it exists and its run_count
    op,         \* the last call made and how it ended
    \* the internals round trip (zntrack/core/zntrack.py)
    child,      \* __dict__ of the node that is saved
    internals,  \* the shared internals file: stage name -> section
    loaded,     \* __dict__ of the node created with load=True
    rtOp,       \* the last round-trip call
    \* graph reproduction
    gEdges,     \* connections: <<producer, consumer>>
    gParam,     \* the parameter of every node
    gOut,       \* the persisted result of every node (0: not produced)
    gOrder,     \* the nodes executed by the current reproduction, in order
    gPhase,     \* "idle" or "repro"
    gDirty,     \* a parameter changed since the last reproduction
    gRepros,    \* reproductions completed
    \* the experiment project (zntrack/project/zntrack_project.py)
    pName,      \* self.name
    pCall,      \* the method that is executing, or "none"
    pPc,        \* the next backend command of the executing method
    pX,         \* the loop variable x of ZnTrackProject.run
    pLog,       \* the backend commands attempted by this invocation
    pResult,    \* "none", "returned" or the exception that reached the caller
    pDone,      \* invocations completed
    \* loading a node from the files of the workspace
    lFiles,     \* what the files hold for the node
    lDict,      \* __dict__ of the node being loaded
    lLoaded,    \* is_loaded / state.loaded of that node
    lOp,        \* the last load call and how it ended
    \* writing the stage declaration and the result files of a node
    sFields,    \* the fields of the node, in declaration order, with values
    sSeed,      \* the string-hash seed of the process: an order of hashes
    sCmd,       \* the last stage declaration written, and from which fields
    sPrevCmd,   \* the stage declaration written before it
    sFile,      \* the last result file written, and from which fields
    sPrevFile,  \* the result file written before it
    sOp,        \* the last call
    \* node names and working directories in a project
    nAuto,      \* automatic_node_names of the project
    nOpen,      \* the project context is entered
    nSession,   \* how often the project context was entered
    nGroup,     \* the group that is entered, "" outside of groups
    nGroups,    \* the unnamed groups created so far
    nNodes,     \* the nodes of the project in order of creation
    nFiles,     \* zntrack.json: the entries of the built nodes
    nLoaded,    \* the node returned by the last from_rev
    nRes,       \* how the last exit of the project context ended
    \* experiments on a graph that has been run
    eWork,      \* the workspace: the parameter and the output of the node, and
                \* a file that is not tracked
    eExps,      \* the experiments: status, parameter and output of each
    eAuto,      \* experiments created without a name
    eHead,      \* the experiment applied to the workspace, "" when none
    eLoaded,    \* the node returned by the last from_rev
    eOp,        \* the last call
    \* state.extend_plots
    xEnv,       \* ZNTRACK_PLUGINS: the configured plugins in order
    xFields,    \* the plots field of the node
    xHistory,   \* the rows passed by the calls that returned
    xOp,        \* the last call, what it handed to the plugins, how it ended
    \* partial build and run of a project
    kMem,       \* the inputs of every node as the session holds them
    kParams,    \* the parameter file: the inputs written for every built node
    kOuts,      \* the outputs persisted for every node
    kOp,        \* the last call and how it ended
    \* node identifiers (zntrack/core/node.py)
    iArgv,      \* the stem of sys.argv[0] of the process
    iStage,     \* whether dvc.yaml records the stage of the node
    iNode,      \* the node n the session holds
    iId,        \* the last NodeIdentifier created
    iGot,       \* the node returned by the last get_node
    iOp,        \* the last call, the calls it made on the node, how it ended
    \* from_rev of a revision (zntrack/node.py, zntrack/state.py)
    vMeta,      \* node-meta.json of the node in every revision
    vNode,      \* the node returned by the last from_rev
    vOp,        \* the last call
    \* the shared internals file (zntrack/core/zntrack.py)
    mFile,      \* zntrack.json: the section of every stage name
    mMem,       \* the descriptor parameters every node holds in memory
    mOp,        \* the last call
    \* state.get_stage_hash
    hFile,      \* <nwd>/node-meta.json: missing, or its content
    hLock,      \* the stage lock the backend computes for the node
    hOp,        \* the last call, what it returned, how it ended
    hTag,       \* the stage hash recorded while the node ran
    \* state.use_tmp_path
    tState,     \* __dict__["state"] of the node
    tScopes,    \* the temporary directories of the scopes that are entered
    tDirs,      \* the temporary directories that exist
    tOp         \* the last call and how it ended

nodeVars == <<inst, disk, nodeMeta, op>>
rtVars == <<child, internals, loaded, rtOp>>
graphVars == <<gEdges, gParam, gOut, gOrder, gPhase, gDirty, gRepros>>
projVars == <<pName, pCall, pPc, pX, pLog, pResult, pDone>>

loadVars == <<lFiles, lDict, lLoaded, lOp>>

baseVars == <<nodeVars, rtVars, graphVars, projVars>>
serVars == <<sFields, sSeed, sCmd, sPrevCmd, sFile, sPrevFile, sOp>>
nameVars == <<nAuto, nOpen, nSession, nGroup, nGroups, nNodes, nFiles, nLoaded, nRes>>
expVars == <<eWork, eExps, eAuto, eHead, eLoaded, eOp>>
plotVars == <<xEnv, xFields, xHistory, xOp>>
selVars == <<kMem, kParams, kOuts, kOp>>
idVars == <<iArgv, iStage, iNode, iId, iGot, iOp>>
revVars == <<vMeta, vNode, vOp>>
internVars == <<mFile, mMem, mOp>>
hashVars == <<hFile, hLock, hOp, hTag>>
tmpVars == <<tState, tScopes, tDirs, tOp>>
late2Vars == <<internVars, hashVars, tmpVars>>
lateVars == <<selVars, idVars, revVars, late2Vars>>
extVars == <<loadVars, serVars, nameVars, expVars, plotVars, lateVars>>

\* the variables outside of one part of the model
notLoad == <<baseVars, serVars, nameVars, expVars, plotVars, lateVars>>
notSer == <<baseVars, loadVars, nameVars, expVars, plotVars, lateVars>>
notName == <<baseVars, loadVars, serVars, expVars, plotVars, lateVars>>
notExp == <<baseVars, loadVars, serVars, nameVars, plotVars, lateVars>>
notPlot == <<baseVars, loadVars, serVars, nameVars, expVars, lateVars>>
earlyVars == <<baseVars, loadVars, serVars, nameVars, expVars, plotVars>>
notSel == <<earlyVars, idVars, revVars, late2Vars>>
notId == <<earlyVars, selVars, revVars, late2Vars>>
notRev == <<earlyVars, selVars, idVars, late2Vars>>
late1Vars == <<selVars, idVars, revVars>>
notIntern == <<earlyVars, late1Vars, hashVars, tmpVars>>
notHash == <<earlyVars, late1Vars, internVars, tmpVars>>
notTmp == <<earlyVars, late1Vars, internVars, hashVars>>

vars == <<baseVars, extVars>>

----------------------------------------------------------------------------
(* Bounds *)

\* the run counter is capped so that the state space is finite
MaxRuns == 2

----------------------------------------------------------------------------
(* Values *)

\* the two sentinels of zntrack.config
ZNTRACK_LAZY_VALUE == "ZNTRACK_LAZY_VALUE"
NOT_AVAILABLE == "NOT_AVAILABLE"

\* NodeStatusEnum members used by node.py
CREATED == "CREATED"
RUNNING == "RUNNING"
FINISHED == "FINISHED"

\* payloads of the example node ParamsToOuts(params=...)
ParamVals == {"42", "7"}

\* a file or a section that does not exist
ABSENT == "ABSENT"

\* the node and its dataclass fields, in dataclasses.fields order
NodeName == "ParamsToOuts"
FieldSeq == <<"name", "params", "outs">>
FieldNames == {FieldSeq[k] : k \in 1..Len(FieldSeq)}

\* ZNTRACK_PLUGINS as the tests set it, in order
PluginSeq == <<"DVCPlugin", "MLFlowPlugin">>

\* __dict__ without a "state" entry
NoState == [run_count |-> 0, state |-> "none", lazy_evaluation |-> TRUE]

\* a handle that holds no instance
NoInst ==
    [alive |-> FALSE,
     dict |-> [f \in FieldNames |-> ABSENT],
     hasState |-> FALSE,
     st |-> NoState]

NoOp == [name |-> "none", field |-> "", res |-> "", handed |-> <<>>]

Call(name, f, res, handed) ==
    [name |-> name, field |-> f, res |-> res, handed |-> handed]

IsError(res) ==
    res \in {"NodeNotAvailableError", "ValueError", "NotImplementedError"}

----------------------------------------------------------------------------
(* zntrack/node.py *)

\* NodeStatus(...).to_dict() as stored in __dict__["state"]
NodeStatus(run_count, state, lazy_evaluation) ==
    [run_count |-> run_count, state |-> state, lazy_evaluation |-> lazy_evaluation]

\* Node.nwd of core/node.py
nwd(name) == "nodes/" \o name

\* the placeholder that stands for the node's working directory in a stored path
NWD_PLACEHOLDER == "$nwd$"

\* a stored path with the placeholder replaced by the working directory; every
\* other value is returned as it is
nwd_handler(v, name) ==
    IF Len(v) >= Len(NWD_PLACEHOLDER)
       /\ SubSeq(v, 1, Len(NWD_PLACEHOLDER)) = NWD_PLACEHOLDER
    THEN nwd(name) \o SubSeq(v, Len(NWD_PLACEHOLDER) + 1, Len(v))
    ELSE v

\* a getter that stores the resolved path in place of the placeholder
getter_resolving_in_place(n, d, f) ==
    LET v == n.dict[f] IN
    IF v # ZNTRACK_LAZY_VALUE
    THEN [node |-> [n EXCEPT !.dict[f] = nwd_handler(v, n.dict["name"])],
          res |-> nwd_handler(v, n.dict["name"])]
    ELSE IF d[f] # ABSENT
         THEN [node |-> [n EXCEPT !.dict[f] = d[f]], res |-> d[f]]
         ELSE [node |-> n, res |-> "NodeNotAvailableError"]

\* the field getter: a stored value is returned as it is, but for the
\* working-directory placeholder of a path, which is resolved in the returned
\* value only; a deferred value is loaded from the node's files on first access
\* and cached in __dict__; when the file or section is missing the read raises
\* and the field stays deferred
getter(n, d, f) ==
    LET v == n.dict[f] IN
    IF v # ZNTRACK_LAZY_VALUE
    THEN [node |-> n, res |-> nwd_handler(v, n.dict["name"])]
    ELSE IF d[f] # ABSENT
         THEN [node |-> [n EXCEPT !.dict[f] = d[f]], res |-> d[f]]
         ELSE [node |-> n, res |-> "NodeNotAvailableError"]

\* a state property that creates the status of update_run_count's fallback
state_of_running(n) ==
    IF n.hasState
    THEN n
    ELSE [n EXCEPT !.hasState = TRUE, !.st = NodeStatus(1, RUNNING, TRUE)]

\* Node.state: creates the CREATED status on first access
state_of(n) ==
    IF n.hasState
    THEN n
    ELSE [n EXCEPT !.hasState = TRUE, !.st = NodeStatus(0, CREATED, TRUE)]

\* DVCPlugin.save writes an output to the node's result file; parameters are
\* written at build time, and the tracking plugin writes no workspace file
plugin_save(p, d, f, v) ==
    IF p = "DVCPlugin" /\ f = "outs" THEN [d EXCEPT !.outs = v] ELSE d

NPairs == Len(PluginSeq) * Len(FieldSeq)

\* the loop of Node.save from its k-th (plugin, field) pair on
RECURSIVE save_loop(_, _, _, _)
save_loop(k, n, d, handed) ==
    IF k > NPairs
    THEN [node |-> n, disk |-> d, handed |-> handed, res |-> "ok"]
    ELSE LET p == PluginSeq[((k - 1) \div Len(FieldSeq)) + 1]
             f == FieldSeq[((k - 1) % Len(FieldSeq)) + 1]
             g == getter(n, d, f)
         IN  IF IsError(g.res)
             THEN [node |-> g.node, disk |-> d, handed |-> handed, res |-> g.res]
             ELSE IF g.res \in {ZNTRACK_LAZY_VALUE, NOT_AVAILABLE}
                  THEN [node |-> g.node, disk |-> d, handed |-> handed,
                        res |-> "ValueError"]
                  ELSE save_loop(k + 1, g.node, plugin_save(p, d, f, g.res),
                                 Append(handed, <<p, f>>))

\* a save that marks the node FINISHED although the loop raised
save_result_always_finished(n, d) ==
    LET r == save_loop(1, n, d, <<>>) IN
    [r EXCEPT !.node = [state_of(r.node) EXCEPT !.st.state = FINISHED]]

\* a save that hands nothing to the plugins
save_result_no_write(n, d) ==
    LET r == save_loop(1, n, d, <<>>) IN
    IF r.res = "ok"
    THEN [r EXCEPT !.node = [state_of(r.node) EXCEPT !.st.state = FINISHED],
                   !.disk = d]
    ELSE r

\* Node.save: the loop, then the state is read and set to FINISHED
save_result(n, d) ==
    LET r == save_loop(1, n, d, <<>>) IN
    IF r.res = "ok"
    THEN [r EXCEPT !.node = [state_of(r.node) EXCEPT !.st.state = FINISHED]]
    ELSE r

\* ParamsToOuts.run: self.outs = self.params
ParamsToOuts_run(n, d) ==
    LET g == getter(n, d, "params") IN
    IF IsError(g.res)
    THEN g
    ELSE [node |-> [g.node EXCEPT !.dict["outs"] = g.res], res |-> "ok"]

\* Node.run of the base class
Node_run(n) == [node |-> n, res |-> "NotImplementedError"]

\* from_rev with lazy_evaluation=False: every field is read once, in order
RECURSIVE load_all(_, _, _)
load_all(k, n, d) ==
    IF k > Len(FieldSeq)
    THEN [node |-> n, res |-> "ok"]
    ELSE LET g == getter(n, d, FieldSeq[k]) IN
         IF IsError(g.res) THEN g ELSE load_all(k + 1, g.node, d)

\* a from_rev that leaves the fields at the class defaults
from_rev_result_defaults(running, lazy_evaluation) ==
    LET run_count == IF nodeMeta.exists THEN nodeMeta.run_count ELSE 0
        instance ==
            [alive |-> TRUE,
             dict |-> [f \in FieldNames |->
                         IF f = "name" THEN NodeName ELSE NOT_AVAILABLE],
             hasState |-> TRUE,
             st |-> NodeStatus(run_count,
                               IF running THEN RUNNING ELSE FINISHED,
                               lazy_evaluation)]
    IN  IF lazy_evaluation
        THEN [node |-> instance, res |-> "ok"]
        ELSE load_all(1, instance, disk)

\* a from_rev that reads every field whatever lazy_evaluation says
from_rev_result_eager(running, lazy_evaluation) ==
    LET run_count == IF nodeMeta.exists THEN nodeMeta.run_count ELSE 0
        instance ==
            [alive |-> TRUE,
             dict |-> [f \in FieldNames |->
                         IF f = "name" THEN NodeName ELSE ZNTRACK_LAZY_VALUE],
             hasState |-> TRUE,
             st |-> NodeStatus(run_count,
                               IF running THEN RUNNING ELSE FINISHED,
                               lazy_evaluation)]
    IN  load_all(1, instance, disk)

\* a from_rev that reads no field whatever lazy_evaluation says
from_rev_result_deferring(running, lazy_evaluation) ==
    LET run_count == IF nodeMeta.exists THEN nodeMeta.run_count ELSE 0
        instance ==
            [alive |-> TRUE,
             dict |-> [f \in FieldNames |->
                         IF f = "name" THEN NodeName ELSE ZNTRACK_LAZY_VALUE],
             hasState |-> TRUE,
             st |-> NodeStatus(run_count,
                               IF running THEN RUNNING ELSE FINISHED,
                               lazy_evaluation)]
    IN  [node |-> instance, res |-> "ok"]

\* Node.from_rev
from_rev_result(running, lazy_evaluation) ==
    LET run_count == IF nodeMeta.exists THEN nodeMeta.run_count ELSE 0
        instance ==
            [alive |-> TRUE,
             dict |-> [f \in FieldNames |->
                         IF f = "name" THEN NodeName ELSE ZNTRACK_LAZY_VALUE],
             hasState |-> TRUE,
             st |-> NodeStatus(run_count,
                               IF running THEN RUNNING ELSE FINISHED,
                               lazy_evaluation)]
    IN  IF lazy_evaluation
        THEN [node |-> instance, res |-> "ok"]
        ELSE load_all(1, instance, disk)

\* a counter update that does not touch the in-memory counter
update_run_count_result_stale(n) ==
    IF n.hasState
    THEN n
    ELSE [n EXCEPT !.hasState = TRUE, !.st = NodeStatus(1, RUNNING, TRUE)]

\* Node.update_run_count, the in-memory part
update_run_count_result(n) ==
    IF n.hasState
    THEN [n EXCEPT !.st.run_count = @ + 1]
    ELSE [n EXCEPT !.hasState = TRUE, !.st = NodeStatus(1, RUNNING, TRUE)]

----------------------------------------------------------------------------
(* The operations on a node *)

\* an empty workspace and no instance
NodeInit ==
    /\ inst = NoInst
    /\ disk = [params |-> ABSENT, outs |-> ABSENT]
    /\ nodeMeta = [exists |-> FALSE, run_count |-> 0]
    /\ op = NoOp

\* the parts of the program a specification does not exercise stay as
\* constructed
RTIdle ==
    /\ child = <<>>
    /\ internals = <<>>
    /\ loaded = <<>>
    /\ rtOp = "none"

GraphIdle ==
    /\ gEdges = {}
    /\ gParam = <<>>
    /\ gOut = <<>>
    /\ gOrder = <<>>
    /\ gPhase = "idle"
    /\ gDirty = FALSE
    /\ gRepros = 0

ProjIdle ==
    /\ pName = ""
    /\ pCall = "none"
    /\ pPc = 0
    /\ pX = 0
    /\ pLog = <<>>
    /\ pResult = "none"
    /\ pDone = 0

LoadIdle ==
    /\ lFiles = <<>>
    /\ lDict = <<>>
    /\ lLoaded = FALSE
    /\ lOp = "none"

SerIdle ==
    /\ sFields = <<>>
    /\ sSeed = <<>>
    /\ sCmd = <<>>
    /\ sPrevCmd = <<>>
    /\ sFile = <<>>
    /\ sPrevFile = <<>>
    /\ sOp = "none"

NameIdle ==
    /\ nAuto = FALSE
    /\ nOpen = FALSE
    /\ nSession = 0
    /\ nGroup = ""
    /\ nGroups = 0
    /\ nNodes = <<>>
    /\ nFiles = {}
    /\ nLoaded = <<>>
    /\ nRes = "none"

ExpIdle ==
    /\ eWork = <<>>
    /\ eExps = <<>>
    /\ eAuto = 0
    /\ eHead = ""
    /\ eLoaded = <<>>
    /\ eOp = "none"

PlotIdle ==
    /\ xEnv = <<>>
    /\ xFields = <<>>
    /\ xHistory = <<>>
    /\ xOp = "none"

SelIdle ==
    /\ kMem = <<>>
    /\ kParams = <<>>
    /\ kOuts = <<>>
    /\ kOp = "none"

IdIdle ==
    /\ iArgv = ""
    /\ iStage = FALSE
    /\ iNode = <<>>
    /\ iId = <<>>
    /\ iGot = <<>>
    /\ iOp = "none"

RevIdle ==
    /\ vMeta = <<>>
    /\ vNode = <<>>
    /\ vOp = "none"

InternIdle ==
    /\ mFile = <<>>
    /\ mMem = <<>>
    /\ mOp = "none"

HashIdle ==
    /\ hFile = [dir |-> FALSE, exists |-> FALSE, content |-> ""]
    /\ hLock = <<>>
    /\ hOp = [name |-> "none"]
    /\ hTag = [exists |-> FALSE]

TmpIdle ==
    /\ tState = <<>>
    /\ tScopes = <<>>
    /\ tDirs = {}
    /\ tOp = [name |-> "none"]

Late2Idle == InternIdle /\ HashIdle /\ TmpIdle

LateIdle == SelIdle /\ IdIdle /\ RevIdle /\ Late2Idle

\* every part before the later ones is as constructed
EarlyIdle ==
    NodeInit /\ RTIdle /\ GraphIdle /\ ProjIdle /\ LoadIdle /\ SerIdle /\ NameIdle
        /\ ExpIdle /\ PlotIdle

ExtIdle == LoadIdle /\ SerIdle /\ NameIdle /\ ExpIdle /\ PlotIdle /\ LateIdle

\* the parts that are idle in every specification of the later sections
RestIdle == ExpIdle /\ PlotIdle /\ LateIdle

Init == NodeInit /\ RTIdle /\ GraphIdle /\ ProjIdle /\ ExtIdle

\* ParamsToOuts(params=p), constructed directly
Node_init(p) ==
    /\ inst' = [alive |-> TRUE,
                dict |-> [f \in FieldNames |->
                            IF f = "name" THEN NodeName
                            ELSE IF f = "params" THEN p ELSE NOT_AVAILABLE],
                hasState |-> FALSE,
                st |-> NoState]
    /\ op' = Call("init", "", "ok", <<>>)
    /\ UNCHANGED <<disk, nodeMeta, rtVars, graphVars, projVars, extVars>>

\* project.build(): the parameters of a constructed node are written
build ==
    /\ inst.alive
    /\ inst.dict["params"] \in ParamVals
    /\ disk' = [disk EXCEPT !.params = inst.dict["params"]]
    /\ op' = Call("build", "", "ok", <<>>)
    /\ UNCHANGED <<inst, nodeMeta, rtVars, graphVars, projVars, extVars>>

from_rev(running, lazy_evaluation) ==
    LET r == from_rev_result(running, lazy_evaluation) IN
    /\ inst' = IF IsError(r.res) THEN inst ELSE r.node
    /\ op' = Call(IF running THEN "from_rev_running" ELSE "from_rev", "", r.res, <<>>)
    /\ UNCHANGED <<disk, nodeMeta, rtVars, graphVars, projVars, extVars>>

\* reading node.state
state ==
    /\ inst.alive
    /\ inst' = state_of(inst)
    /\ op' = Call("state", "", inst'.st.state, <<>>)
    /\ UNCHANGED <<disk, nodeMeta, rtVars, graphVars, projVars, extVars>>

\* reading node.<f>
getattr(f) ==
    LET g == getter(inst, disk, f) IN
    /\ inst.alive
    /\ inst' = g.node
    /\ op' = Call("getattr", f, g.res, <<>>)
    /\ UNCHANGED <<disk, nodeMeta, rtVars, graphVars, projVars, extVars>>

update_run_count ==
    LET n == update_run_count_result(inst) IN
    /\ inst.alive
    /\ inst.st.run_count < MaxRuns
    /\ inst' = n
    /\ nodeMeta' = [exists |-> TRUE, run_count |-> state_of(n).st.run_count]
    /\ op' = Call("update_run_count", "", "ok", <<>>)
    /\ UNCHANGED <<disk, rtVars, graphVars, projVars, extVars>>

\* node.run() of the example node, or of a node that does not override run
run(overridden) ==
    LET r == IF overridden THEN ParamsToOuts_run(inst, disk)
             ELSE Node_run(inst) IN
    /\ inst.alive
    /\ inst' = r.node
    /\ op' = Call("run", "", r.res, <<>>)
    /\ UNCHANGED <<disk, nodeMeta, rtVars, graphVars, projVars, extVars>>

save ==
    LET r == save_result(inst, disk) IN
    /\ inst.alive
    /\ inst' = r.node
    /\ disk' = r.disk
    /\ op' = Call("save", "", r.res, r.handed)
    /\ UNCHANGED <<nodeMeta, rtVars, graphVars, projVars, extVars>>

\* run() followed by save(); save is not reached when run raises
run_and_save(overridden) ==
    LET r == IF overridden THEN ParamsToOuts_run(inst, disk)
             ELSE Node_run(inst)
        s == save_result(r.node, disk)
    IN  /\ inst.alive
        /\ IF IsError(r.res)
           THEN /\ inst' = r.node
                /\ disk' = disk
                /\ op' = Call("run_and_save", "", r.res, <<>>)
           ELSE /\ inst' = s.node
                /\ disk' = s.disk
                /\ op' = Call("run_and_save", "", s.res, s.handed)
        /\ UNCHANGED <<nodeMeta, rtVars, graphVars, projVars, extVars>>

\* dvc repro: the backend executes the built stage in a process of its own
\* (from_rev(running=True), update_run_count, run, save); the process may be
\* interrupted after the counter was updated
dvc_repro(completes) ==
    LET n0 == from_rev_result(TRUE, TRUE).node
        n1 == update_run_count_result(n0)
        r == ParamsToOuts_run(n1, disk)
        s == save_result(r.node, disk)
    IN  /\ disk.params # ABSENT
        /\ n0.st.run_count < MaxRuns
        /\ nodeMeta' = [exists |-> TRUE, run_count |-> n1.st.run_count]
        /\ disk' = IF completes THEN s.disk ELSE disk
        /\ op' = Call("dvc_repro", "",
                      IF completes THEN s.res ELSE "interrupted", <<>>)
        /\ UNCHANGED <<inst, rtVars, graphVars, projVars, extVars>>

Next ==
    \/ \E completes \in BOOLEAN : dvc_repro(completes)
    \/ \E p \in ParamVals : Node_init(p)
    \/ build
    \/ \E running \in BOOLEAN, lazy_evaluation \in BOOLEAN :
          from_rev(running, lazy_evaluation)
    \/ state
    \/ \E f \in FieldNames : getattr(f)
    \/ update_run_count
    \/ \E overridden \in BOOLEAN : run(overridden)
    \/ save
    \/ \E overridden \in BOOLEAN : run_and_save(overridden)

Spec == Init /\ [][Next]_vars

----------------------------------------------------------------------------
(* Properties of the node lifecycle *)

\* the tracked fields, i.e. every dataclass field but the name
DataFields == FieldNames \ {"name"}

Deferred(f) == inst.alive /\ inst.dict[f] = ZNTRACK_LAZY_VALUE

RunCount == IF inst.hasState THEN inst.st.run_count ELSE 0
Persisted == IF nodeMeta.exists THEN nodeMeta.run_count ELSE 0

Constructs(name) == name \in {"init", "from_rev", "from_rev_running"}

\* C2: a lazily loaded node has its fields deferred; reading a deferred field
\* whose data has not been produced yet raises NodeNotAvailableError and leaves
\* the field deferred; once the data was produced the same read, on this
\* instance or a reloaded one, returns the produced value; an output is
\* produced only by a run whose save completed
C2_LazyRead ==
    /\ [](op.name = "from_rev" /\ op.res = "ok" /\ inst.st.lazy_evaluation
            => \A f \in DataFields : Deferred(f))
    /\ [][/\ \A f \in DataFields :
               (op'.name = "getattr" /\ op'.field = f /\ Deferred(f))
                  => IF disk[f] = ABSENT
                     THEN op'.res = "NodeNotAvailableError" /\ Deferred(f)'
                     ELSE op'.res = disk[f] /\ inst'.dict[f] = disk[f]
          /\ (disk.outs = ABSENT /\ disk'.outs # ABSENT)
                  => /\ op'.name \in {"save", "run_and_save", "dvc_repro"}
                     /\ op'.res = "ok"]_vars

\* C2 witness: a read of the output failed, the run completed, and the same
\* instance now returns the produced value
C2_Witness ==
    /\ op.name = "getattr" /\ op.field = "outs"
    /\ op.res \in ParamVals /\ op.res = disk.outs
    /\ inst.dict["params"] = ZNTRACK_LAZY_VALUE
    /\ inst.st.lazy_evaluation

C4_FromRevUnknown ==
    (op.name \in {"from_rev", "from_rev_running"} /\ op.res = "ok")
        => inst.st.state = "UNKNOWN"

\* C5: the first read of the state of a directly constructed node creates the
\* status CREATED with run_count 0, and a read of a CREATED state leaves it so
C5_CreatedOnRead ==
    [][op'.name = "state"
         => /\ ~inst.hasState
                => /\ inst'.st = NodeStatus(0, CREATED, TRUE)
                   /\ op'.res = CREATED
            /\ (inst.hasState /\ inst.st.state = CREATED)
                => inst'.st = inst.st /\ op'.res = CREATED]_vars

\* C5 witness: the state of a directly constructed node was read
C5_Witness ==
    /\ op.name = "state" /\ op.res = CREATED
    /\ inst.st.run_count = 0
    /\ inst.dict["outs"] = NOT_AVAILABLE

\* C6: after a lazy from_rev only the name is set and every tracked field holds
\* the deferred sentinel, and a deferred field stays deferred in every step
\* that neither reads it (getattr, run reading params, save reading every
\* field) nor assigns it (run assigning outs)
C6_DeferredUntilRead ==
    /\ []((op.name \in {"from_rev", "from_rev_running"} /\ op.res = "ok"
             /\ inst.st.lazy_evaluation)
            => /\ inst.dict["name"] = NodeName
               /\ \A f \in DataFields : inst.dict[f] = ZNTRACK_LAZY_VALUE)
    /\ [][\A f \in DataFields :
            (Deferred(f) /\ ~Deferred(f)')
               => \/ Constructs(op'.name)
                  \/ op'.name = "getattr" /\ op'.field = f
                  \/ op'.name \in {"run", "run_and_save"}
                       /\ (f = "params" \/ (f = "outs" /\ ~Deferred("params")'))
                  \/ op'.name \in {"save", "run_and_save"}]_vars

\* C6 witness: a lazily loaded node whose parameter was read while its output
\* is still deferred
C6_Witness ==
    /\ op.name = "getattr" /\ op.field = "params" /\ op.res \in ParamVals
    /\ inst.dict["outs"] = ZNTRACK_LAZY_VALUE
    /\ inst.dict["params"] = op.res

\* C7 (as claimed): when an execution began (node-meta.json was written) and no
\* save has completed (no output was written), from_rev does not report FINISHED
C7_InterruptedNotFinished ==
    (op.name = "from_rev" /\ op.res = "ok"
       /\ nodeMeta.exists /\ disk.outs = ABSENT)
        => inst.st.state # FINISHED

\* C9 (as claimed): update_run_count adds one to the node's run_count, writes
\* that value to node-meta.json, and the persisted counter never decreases
C9_CounterMonotone ==
    [][op'.name = "update_run_count"
         => /\ RunCount' = RunCount + 1
            /\ Persisted' = RunCount'
            /\ Persisted' >= Persisted]_vars

----------------------------------------------------------------------------
(* zntrack/project/zntrack_project.py and run_dvc_cmd *)

\* invocations of project methods in one behaviour
MaxCalls == 2

\* range(3) in ZnTrackProject.run
ApplyTrials == 3

\* the name argument: None or an experiment name
NameArgs == {"None", "exp1", "exp2"}

\* the backend commands a method issues, in order; the last command of run is
\* the body of its loop
Program(call) ==
    CASE call = "run" ->
            <<"git add", "dvc exp run --queue", "dvc exp run --run-all", "git add",
              "dvc exp apply">>
      [] call = "queue" -> <<"git add", "dvc exp run --queue">>
      [] call = "run_all" -> <<"dvc exp run --run-all", "git add">>
      [] call = "load" -> <<"dvc exp apply">>
      [] call = "save" -> <<"dvc exp branch">>
      [] call = "repro" -> <<"dvc repro">>
      [] call = "run_dvc_cmd" -> <<"dvc.cli.main">>
      [] OTHER -> <<>>

Methods == {"run", "queue", "run_all", "load", "save", "repro", "run_dvc_cmd"}

\* methods that take the name argument and store it in self.name
TakesName(call) == call \in {"run", "queue", "load"}

\* the exception a failing command raises in the method
Raised(call) ==
    IF call = "run_dvc_cmd" THEN "DVCProcessError" ELSE "CalledProcessError"

InLoop(call, pc) == call = "run" /\ pc = Len(Program("run"))

\* a method that repeats every failing command
project_step_retry_all(call, pc, x, ok) ==
    IF ~ok
    THEN [pc |-> pc, x |-> x, result |-> "none"]
    ELSE IF InLoop(call, pc)
         THEN IF x + 1 < ApplyTrials
              THEN [pc |-> pc, x |-> x + 1, result |-> "none"]
              ELSE [pc |-> pc, x |-> x + 1, result |-> "returned"]
         ELSE IF pc < Len(Program(call))
              THEN [pc |-> pc + 1, x |-> x, result |-> "none"]
              ELSE [pc |-> pc, x |-> x, result |-> "returned"]

\* a method that goes on with its next command after a command failed
project_step_continue(call, pc, x, ok) ==
    IF InLoop(call, pc)
    THEN IF ~ok /\ x = ApplyTrials - 1
         THEN [pc |-> pc, x |-> x, result |-> Raised(call)]
         ELSE IF x + 1 < ApplyTrials
              THEN [pc |-> pc, x |-> x + 1, result |-> "none"]
              ELSE [pc |-> pc, x |-> x + 1, result |-> "returned"]
    ELSE IF pc < Len(Program(call))
         THEN [pc |-> pc + 1, x |-> x, result |-> "none"]
         ELSE [pc |-> pc, x |-> x, result |-> IF ok THEN "returned" ELSE Raised(call)]

\* what follows the command at pc ending ok or failing: check_call raises on
\* failure; in the loop of run only the failure of the last trial is raised, and
\* a trial that succeeds does not leave the loop
project_step(call, pc, x, ok) ==
    IF InLoop(call, pc)
    THEN IF ~ok /\ x = ApplyTrials - 1
         THEN [pc |-> pc, x |-> x, result |-> Raised(call)]
         ELSE IF x + 1 < ApplyTrials
              THEN [pc |-> pc, x |-> x + 1, result |-> "none"]
              ELSE [pc |-> pc, x |-> x + 1, result |-> "returned"]
    ELSE IF ~ok
         THEN [pc |-> pc, x |-> x, result |-> Raised(call)]
         ELSE IF pc < Len(Program(call))
              THEN [pc |-> pc + 1, x |-> x, result |-> "none"]
              ELSE [pc |-> pc, x |-> x, result |-> "returned"]

Executing == pCall # "none" /\ pResult = "none"

ProjInit ==
    /\ pName = "PyTrackProject"
    /\ pCall = "none"
    /\ pPc = 0
    /\ pX = 0
    /\ pLog = <<>>
    /\ pResult = "none"
    /\ pDone = 0

\* a method of the project is called
project_call(call, name) ==
    /\ ~Executing
    /\ pDone < MaxCalls
    /\ TakesName(call) \/ name = "None"
    /\ pCall' = call
    /\ pName' = IF TakesName(call) /\ name # "None" THEN name ELSE pName
    /\ pPc' = 1
    /\ pX' = 0
    /\ pLog' = <<>>
    /\ pResult' = "none"
    /\ UNCHANGED <<pDone, nodeVars, rtVars, graphVars, extVars>>

\* the backend command at pc is attempted and ends ok or not
backend_command(ok) ==
    LET n == project_step(pCall, pPc, pX, ok) IN
    /\ Executing
    /\ pLog' = Append(pLog, [site |-> pPc, cmd |-> Program(pCall)[pPc], ok |-> ok])
    /\ pPc' = n.pc
    /\ pX' = n.x
    /\ pResult' = n.result
    /\ pDone' = IF n.result = "none" THEN pDone ELSE pDone + 1
    /\ UNCHANGED <<pCall, pName, nodeVars, rtVars, graphVars, extVars>>

NextProject ==
    \/ \E call \in Methods, name \in NameArgs : project_call(call, name)
    \/ \E ok \in BOOLEAN : backend_command(ok)

InitProject == NodeInit /\ RTIdle /\ GraphIdle /\ ProjInit /\ ExtIdle

SpecProject == InitProject /\ [][NextProject]_vars

Attempts(site) == Cardinality({k \in 1..Len(pLog) : pLog[k].site = site})

Sites == 1..Len(Program("run"))

----------------------------------------------------------------------------
(* the graph of a project and its reproduction by the backend *)

\* reproductions in one behaviour
MaxRepros == 2

Nodes == {"a", "b", "c"}

GraphParams == {3, 5}

\* a value no node has written
Unwritten == 0

Producers(edges, n) == {p \in Nodes : <<p, n>> \in edges}

RECURSIVE Reaches(_, _, _, _)
Reaches(edges, from, to, k) ==
    IF k = 0 THEN FALSE
    ELSE \E m \in Nodes :
            <<from, m>> \in edges /\ (m = to \/ Reaches(edges, m, to, k - 1))

\* connections form a DAG
Acyclic(edges) == \A n \in Nodes : ~Reaches(edges, n, n, Cardinality(Nodes))

RECURSIVE SumOver(_, _)
SumOver(S, f) ==
    IF S = {} THEN 0
    ELSE LET p == CHOOSE q \in S : TRUE IN f[p] + SumOver(S \ {p}, f)

\* a backend that starts a unit whatever has run before it
ready_unordered(edges, order, n) ==
    \A k \in 1..Len(order) : order[k] # n

\* a unit is started once all units it depends on have run in this reproduction
ready(edges, order, n) ==
    /\ \A k \in 1..Len(order) : order[k] # n
    /\ \A p \in Producers(edges, n) : \E k \in 1..Len(order) : order[k] = p

\* run of a node of the graph: it reads the outs of its producers and writes the
\* sum of them and of its own parameter
graph_run(edges, param, out, n) ==
    LET seen == [p \in Producers(edges, n) |-> out[p].value] IN
    [value |-> param[n] + SumOver(Producers(edges, n), seen),
     seen |-> seen,
     prev |-> out[n].value]

GraphInit ==
    /\ gEdges \in {e \in SUBSET (Nodes \X Nodes) : Acyclic(e)}
    /\ gParam \in [Nodes -> GraphParams]
    /\ gOut = [n \in Nodes |->
                 [value |-> Unwritten,
                  seen |-> [p \in Producers(gEdges, n) |-> Unwritten],
                  prev |-> Unwritten]]
    /\ gOrder = <<>>
    /\ gPhase = "idle"
    /\ gDirty = FALSE
    /\ gRepros = 0

\* the parameter of a node is changed between reproductions
set_param(n, v) ==
    /\ gPhase = "idle"
    /\ gParam[n] # v
    /\ gParam' = [gParam EXCEPT ![n] = v]
    /\ gDirty' = TRUE
    /\ UNCHANGED <<gEdges, gOut, gOrder, gPhase, gRepros, nodeVars, rtVars, projVars,
                   extVars>>

\* the backend starts reproducing the graph
repro_start ==
    /\ gPhase = "idle"
    /\ gRepros < MaxRepros
    /\ gPhase' = "running"
    /\ gOrder' = <<>>
    /\ UNCHANGED <<gEdges, gParam, gOut, gDirty, gRepros, nodeVars, rtVars, projVars,
                   extVars>>

\* the backend runs the next unit; the reproduction ends with the last one
repro_step(n) ==
    /\ gPhase = "running"
    /\ ready(gEdges, gOrder, n)
    /\ gOrder' = Append(gOrder, n)
    /\ gOut' = [gOut EXCEPT ![n] = graph_run(gEdges, gParam, gOut, n)]
    /\ IF Len(gOrder') = Cardinality(Nodes)
       THEN gPhase' = "idle" /\ gDirty' = FALSE /\ gRepros' = gRepros + 1
       ELSE UNCHANGED <<gPhase, gDirty, gRepros>>
    /\ UNCHANGED <<gEdges, gParam, nodeVars, rtVars, projVars, extVars>>

NextGraph ==
    \/ \E n \in Nodes, v \in GraphParams : set_param(n, v)
    \/ repro_start
    \/ \E n \in Nodes : repro_step(n)

InitGraph == NodeInit /\ RTIdle /\ GraphInit /\ ProjIdle /\ ExtIdle

SpecGraph == InitGraph /\ [][NextGraph]_vars

RECURSIVE Expected(_)
Expected(n) ==
    gParam[n] + SumOver(Producers(gEdges, n),
                        [p \in Producers(gEdges, n) |-> Expected(p)])

\* C8: in a reproduction of an acyclic graph the producer of every edge runs
\* before its consumer, a consumer that has run has read what its producers
\* wrote in this reproduction, and once a reproduction has ended with no
\* parameter changed since, every result is the one that follows from the
\* current parameters of the node and of its producers
C8_ProducerBeforeConsumer ==
    /\ \A i \in 1..Len(gOrder) : \A p \in Producers(gEdges, gOrder[i]) :
          /\ \E j \in 1..(i - 1) : gOrder[j] = p
          /\ gOut[gOrder[i]].seen[p] = gOut[p].value
    /\ (gPhase = "idle" /\ gRepros >= 1 /\ ~gDirty)
          => \A n \in Nodes : gOut[n].value = Expected(n)

\* C8 witness: c sums a and b; after a first reproduction the parameter of a
\* was changed, and a second reproduction gave c a new result
C8_Witness ==
    /\ gEdges = {<<"a", "c">>, <<"b", "c">>}
    /\ gPhase = "idle" /\ gRepros = 2 /\ ~gDirty
    /\ gParam = [a |-> 5, b |-> 3, c |-> 3]
    /\ gOut["c"].prev = 9
    /\ gOut["c"].value = 11

----------------------------------------------------------------------------
(* zntrack/core/zntrack.py: the internals of a stage in zntrack.json *)

\* values of a field: a plain value, a node, the serialized form of each, and
\* the reference to a stage the deserializer gives for a serialized node
Plain(x) == [kind |-> "plain", v |-> x]
NodeRef(name) == [kind |-> "Node", v |-> name]
ZnTrackStage(name) == [kind |-> "ZnTrackStage", v |-> name]
Json(x) == [kind |-> "json", v |-> x]
JsonStage(name) == [kind |-> "json_ZnTrackStage", v |-> name]

\* a field holds one value or a list of values
Single(e) == [isList |-> FALSE, items |-> <<e>>]
List(es) == [isList |-> TRUE, items |-> es]

Unset == Single([kind |-> "unset", v |-> ""])

t1 == Plain("Thermostat(300, 0.05)")
t2 == Plain("Thermostat(400, 0.1)")
ml == NodeRef("MLThermostat")

\* the thermostat arguments a node MD is constructed with
ThermostatArgs ==
    {Single(t1), Single(ml), List(<<>>), List(<<t1>>), List(<<ml>>),
     List(<<t1, t2>>), List(<<t2, t1>>), List(<<ml, t1>>), List(<<t1, ml, t2>>)}

StepsArgs == {Single(Plain("100")), Single(Plain("200"))}

NoDict == [thermostat |-> Unset, steps |-> Unset]

serialize_item(e) == IF e.kind = "Node" THEN JsonStage(e.v) ELSE Json(e.v)

deserialize_item(e) ==
    IF e.kind = "json_ZnTrackStage" THEN ZnTrackStage(e.v) ELSE Plain(e.v)

serialize_value(val) ==
    [isList |-> val.isList,
     items |-> [k \in 1..Len(val.items) |-> serialize_item(val.items[k])]]

deserialize_value(val) ==
    [isList |-> val.isList,
     items |-> [k \in 1..Len(val.items) |-> deserialize_item(val.items[k])]]

serializer(internals_) ==
    [deps |-> [thermostat |-> serialize_value(internals_.deps.thermostat)],
     params |-> [steps |-> serialize_value(internals_.params.steps)]]

deserializer(data) ==
    [deps |-> [thermostat |-> deserialize_value(data.deps.thermostat)],
     params |-> [steps |-> deserialize_value(data.params.steps)]]

\* only a ZnTrackStage has the method load_zntrack_node
has_load_zntrack_node(e) == e.kind = "ZnTrackStage"

load_zntrack_node(e) == NodeRef(e.v)

\* the options of the child by option kind
descriptor_parameters(dict) ==
    [deps |-> [thermostat |-> dict.thermostat],
     params |-> [steps |-> dict.steps]]

\* the value the setter stores for one option value: a stage is loaded; a list
\* is loaded item by item, and kept as it is when an item has no
\* load_zntrack_node
set_option(val) ==
    IF ~val.isList
    THEN IF has_load_zntrack_node(val.items[1])
         THEN Single(load_zntrack_node(val.items[1]))
         ELSE val
    ELSE IF \A k \in 1..Len(val.items) : has_load_zntrack_node(val.items[k])
         THEN List([k \in 1..Len(val.items) |-> load_zntrack_node(val.items[k])])
         ELSE val

descriptor_parameters_set(value) ==
    [thermostat |-> set_option(value.deps.thermostat),
     steps |-> set_option(value.params.steps)]

RTInit ==
    /\ child = [built |-> FALSE, dict |-> NoDict]
    /\ internals = [exists |-> FALSE, data |-> serializer(descriptor_parameters(NoDict))]
    /\ loaded = [load |-> FALSE, dict |-> NoDict]
    /\ rtOp = "none"

\* MD(thermostat=..., steps=...)
MD_init(thermostat, steps) ==
    /\ child' = [built |-> TRUE, dict |-> [thermostat |-> thermostat, steps |-> steps]]
    /\ rtOp' = "init"
    /\ UNCHANGED <<internals, loaded, nodeVars, graphVars, projVars, extVars>>

save_internals ==
    /\ child.built
    /\ internals' = [exists |-> TRUE,
                     data |-> serializer(descriptor_parameters(child.dict))]
    /\ rtOp' = "save_internals"
    /\ UNCHANGED <<child, loaded, nodeVars, graphVars, projVars, extVars>>

\* a fresh instance MD(load=True) reads its internals; a missing entry of the
\* file leaves its options unset
load_internals ==
    /\ loaded' = [load |-> TRUE,
                  dict |-> IF internals.exists
                           THEN descriptor_parameters_set(deserializer(internals.data))
                           ELSE NoDict]
    /\ rtOp' = "load_internals"
    /\ UNCHANGED <<child, internals, nodeVars, graphVars, projVars, extVars>>

NextRT ==
    \/ \E th \in ThermostatArgs, st \in StepsArgs : MD_init(th, st)
    \/ save_internals
    \/ load_internals

InitRT == NodeInit /\ RTInit /\ GraphIdle /\ ProjIdle /\ ExtIdle

SpecRT == InitRT /\ [][NextRT]_vars

\* C1: a fresh instance loaded from the internals the node has saved holds,
\* field for field, the values of the node; a list mixing plain values and
\* nodes comes back with the same length, order, element types and values
C1_RoundTrip ==
    (/\ rtOp = "load_internals"
     /\ child.built
     /\ internals.exists
     /\ internals.data = serializer(descriptor_parameters(child.dict)))
        => loaded.dict = child.dict

----------------------------------------------------------------------------
(* loading a node: Node.update_options (core/base.py), load_internals and    *)
(* load_descriptors_from_file (core/zntrack.py), Node.load (core/node.py)    *)
(* with a Text field (fields/meta)                                           *)

SAVED == "saved"
DEFAULT == "default"
CHANGED == "changed"
NONE == "None"

\* dvc.yaml as Text.load finds it: missing, without the stage of the node,
\* with the stage but without "meta", with "meta" but without the field, or
\* holding the field
MetaStates == {"no file", "no stage", "no meta", "no key", SAVED}

LoadFieldNames == {"params", "outs", "text"}

LoadFiles ==
    [params : {ABSENT, SAVED}, zntrack : {ABSENT, SAVED}, outs : {ABSENT, SAVED},
     meta : MetaStates]

DefaultDict == [f \in LoadFieldNames |-> DEFAULT]

Raises(err) == [err |-> err, value |-> ""]
Returns(value) == [err |-> "", value |-> value]

\* option.get_data_from_files: the params option reads the section of the node
\* in params.yaml, the outs option reads the result file of the node
get_data_from_files(files, option) ==
    IF option = "params"
    THEN IF files.params = ABSENT THEN Raises("KeyError") ELSE Returns(files.params)
    ELSE IF files.outs = ABSENT THEN Raises("FileNotFoundError")
         ELSE Returns(files.outs)

update_option(files, dict, option) ==
    LET got == get_data_from_files(files, option) IN
    IF got.err \in {"FileNotFoundError", "KeyError"} THEN dict[option] ELSE got.value

\* Node.update_options over _descriptor_list
update_options_result(files, dict) ==
    [dict |-> [dict EXCEPT !.params = update_option(files, dict, "params"),
                           !.outs = update_option(files, dict, "outs")],
     loaded |-> TRUE,
     res |-> "ok"]

\* post_init of a stage created with load=True: load_internals, then
\* load_descriptors_from_file
post_init_result(files) ==
    LET afterInternals ==
            IF files.zntrack = ABSENT THEN DefaultDict
            ELSE [DefaultDict EXCEPT !.params = files.zntrack]
        afterFiles ==
            IF files.outs = ABSENT THEN afterInternals
            ELSE [afterInternals EXCEPT !.outs = files.outs]
    IN [dict |-> afterFiles, loaded |-> TRUE, res |-> "ok"]

\* Text.load: read_text("dvc.yaml"), then ["stages"][name]["meta"].get(name, None)
Text_load(files) ==
    CASE files.meta = "no file" -> Raises("FileNotFoundError")
      [] files.meta \in {"no stage", "no meta"} -> Raises("KeyError")
      [] files.meta = "no key" -> Returns(NONE)
      [] OTHER -> Returns(files.meta)

\* the load of a result field: a missing file leaves the field as it is
Field_load(files, dict) ==
    IF files.outs = ABSENT THEN dict.outs ELSE files.outs

\* Node.load: attr.load(self) for every field, then state.loaded = True; an
\* exception of a field leaves the loop and the method
Node_load_result(files) ==
    LET text == Text_load(files) IN
    IF text.err # ""
    THEN [dict |-> DefaultDict, loaded |-> FALSE, res |-> text.err]
    ELSE [dict |-> [DefaultDict EXCEPT !.text = text.value,
                                       !.outs = Field_load(files, DefaultDict)],
          loaded |-> TRUE,
          res |-> "ok"]

LoadCall(name, before, res) == [name |-> name, before |-> before, res |-> res]

LoadInit ==
    /\ lFiles \in LoadFiles
    /\ lDict = DefaultDict
    /\ lLoaded = FALSE
    /\ lOp = LoadCall("none", DefaultDict, "")

\* the user assigns a field of the node in memory
set_attr(f) ==
    /\ lDict[f] # CHANGED
    /\ lDict' = [lDict EXCEPT ![f] = CHANGED]
    /\ lOp' = LoadCall("set_attr", lDict, "ok")
    /\ UNCHANGED <<lFiles, lLoaded, notLoad>>

update_options ==
    LET r == update_options_result(lFiles, lDict) IN
    /\ lDict' = r.dict
    /\ lLoaded' = r.loaded
    /\ lOp' = LoadCall("update_options", lDict, r.res)
    /\ UNCHANGED <<lFiles, notLoad>>

\* Stage(load=True)
post_init ==
    LET r == post_init_result(lFiles) IN
    /\ lDict' = r.dict
    /\ lLoaded' = r.loaded
    /\ lOp' = LoadCall("post_init", DefaultDict, r.res)
    /\ UNCHANGED <<lFiles, notLoad>>

\* Node.from_rev of core/node.py: a new node, then node.load()
Node_load ==
    LET r == Node_load_result(lFiles) IN
    /\ lDict' = r.dict
    /\ lLoaded' = r.loaded
    /\ lOp' = LoadCall("Node.load", DefaultDict, r.res)
    /\ UNCHANGED <<lFiles, notLoad>>

NextLoad ==
    \/ \E f \in LoadFieldNames : set_attr(f)
    \/ update_options
    \/ post_init
    \/ Node_load

InitLoad ==
    NodeInit /\ RTIdle /\ GraphIdle /\ ProjIdle /\ LoadInit /\ SerIdle /\ NameIdle
        /\ RestIdle

SpecLoad == InitLoad /\ [][NextLoad]_vars

\* what the files hold for a field under a loader, ABSENT when the section or
\* the file is missing
OnDisk(loader, f) ==
    CASE f = "outs" /\ loader # "none" -> lFiles.outs
      [] f = "params" /\ loader = "update_options" -> lFiles.params
      [] f = "params" /\ loader = "post_init" -> lFiles.zntrack
      [] f = "text" /\ loader = "Node.load" ->
            IF lFiles.meta = SAVED THEN SAVED ELSE ABSENT
      [] OTHER -> ABSENT

\* C11: a load does not fail on a missing section or a missing file: it ends
\* without an error with the node loaded, a field whose data is missing keeps
\* the value it had (or is unset), and every field whose data is there holds it
C11_LoadTolerant ==
    lOp.name \in {"update_options", "post_init", "Node.load"}
        => /\ lOp.res = "ok"
           /\ lLoaded
           /\ \A f \in LoadFieldNames :
                 IF OnDisk(lOp.name, f) = ABSENT
                 THEN lDict[f] \in {lOp.before[f], NONE}
                 ELSE lDict[f] = OnDisk(lOp.name, f)

----------------------------------------------------------------------------
(* get_dvc_cmd (core/node.py) and save_descriptors_to_file (core/zntrack.py) *)

Field(option, name, value) == [option |-> option, name |-> name, value |-> value]

FieldValues == {"1", "2"}

\* the classes whose nodes are written: the fields in declaration order
NodeDecls ==
    {<<Field("params", "a", "1")>>,
     <<Field("params", "a", "1"), Field("params", "b", "1")>>,
     <<Field("params", "a", "1"), Field("outs", "o", "1")>>,
     <<Field("outs", "o", "1"), Field("params", "a", "1")>>,
     <<Field("meta", "t", "1"), Field("outs", "o", "1")>>}

\* the argument of `dvc stage add` a field contributes; a meta field
\* contributes none
get_stage_add_argument(field) ==
    CASE field.option = "params" -> <<<<"--params", "params.yaml:Node">>>>
      [] field.option = "outs" -> <<<<"--outs", "nodes/Node/outs.json">>>>
      [] OTHER -> <<>>

AllArguments ==
    {<<"--params", "params.yaml:Node">>, <<"--outs", "nodes/Node/outs.json">>}

\* the orders in which a process can iterate over a set of these tuples: the
\* hash of a string differs from process to process
HashSeeds ==
    {seed \in [1..Cardinality(AllArguments) -> AllArguments] :
        \A i, j \in 1..Cardinality(AllArguments) : seed[i] = seed[j] => i = j}

RECURSIVE Concat(_)
Concat(seqs) == IF seqs = <<>> THEN <<>> ELSE Head(seqs) \o Concat(Tail(seqs))

Elements(seq) == {seq[k] : k \in 1..Len(seq)}

\* iteration over set(field_cmds) in a process with this seed
set_iter(seed, field_cmds) ==
    SelectSeq(seed, LAMBDA t : t \in Elements(field_cmds))

\* get_dvc_cmd(node) with the default options
get_dvc_cmd(seed, fields) ==
    LET field_cmds == Concat([k \in 1..Len(fields) |-> get_stage_add_argument(fields[k])])
    IN <<"stage", "add", "--name", "Node", "--force">>
          \o Concat(set_iter(seed, field_cmds))
          \o <<"zntrack run module.Node --name Node">>

\* the result file: json.dumps of the fields with load=True, in declaration
\* order
save_descriptors_to_file(fields) ==
    LET kept == SelectSeq(fields, LAMBDA f : f.option = "outs") IN
    [k \in 1..Len(kept) |-> <<kept[k].name, kept[k].value>>]

Written(fields, text) == [written |-> TRUE, fields |-> fields, text |-> text]
NotWritten == [written |-> FALSE, fields |-> <<>>, text |-> <<>>]

SerInit ==
    /\ sFields \in NodeDecls
    /\ sSeed \in HashSeeds
    /\ sCmd = NotWritten
    /\ sPrevCmd = NotWritten
    /\ sFile = NotWritten
    /\ sPrevFile = NotWritten
    /\ sOp = "none"

\* the user assigns a field
set_value(k, v) ==
    /\ k \in 1..Len(sFields)
    /\ sFields[k].value # v
    /\ sFields' = [sFields EXCEPT ![k].value = v]
    /\ sOp' = "set_value"
    /\ UNCHANGED <<sSeed, sCmd, sPrevCmd, sFile, sPrevFile, notSer>>

\* the script is started again: a new process with its own hash seed
new_process(seed) ==
    /\ sSeed' = seed
    /\ sOp' = "new_process"
    /\ UNCHANGED <<sFields, sCmd, sPrevCmd, sFile, sPrevFile, notSer>>

\* write_graph: the stage declaration is computed and handed to the backend
write_graph ==
    /\ sPrevCmd' = sCmd
    /\ sCmd' = Written(sFields, get_dvc_cmd(sSeed, sFields))
    /\ sOp' = "write_graph"
    /\ UNCHANGED <<sFields, sSeed, sFile, sPrevFile, notSer>>

write_descriptors ==
    /\ sPrevFile' = sFile
    /\ sFile' = Written(sFields, save_descriptors_to_file(sFields))
    /\ sOp' = "save_descriptors_to_file"
    /\ UNCHANGED <<sFields, sSeed, sCmd, sPrevCmd, notSer>>

NextSer ==
    \/ \E k \in 1..Len(sFields), v \in FieldValues : set_value(k, v)
    \/ \E seed \in HashSeeds : new_process(seed)
    \/ write_graph
    \/ write_descriptors

InitSer ==
    NodeInit /\ RTIdle /\ GraphIdle /\ ProjIdle /\ LoadIdle /\ SerInit /\ NameIdle
        /\ RestIdle

SpecSer == InitSer /\ [][NextSer]_vars

\* C12: two writes of the same node with the same field values give the same
\* stage declaration, argument for argument in the same order, and the same
\* file contents
C12_SameOutputTwice ==
    /\ (sCmd.written /\ sPrevCmd.written /\ sCmd.fields = sPrevCmd.fields)
          => sCmd.text = sPrevCmd.text
    /\ (sFile.written /\ sPrevFile.written /\ sFile.fields = sPrevFile.fields)
          => sFile.text = sPrevFile.text

----------------------------------------------------------------------------
(* node names, groups and working directories of a project *)

\* nodes created in one project
MaxNodes == 3

\* entries of the project context
MaxSessions == 2

\* unnamed groups of one project
MaxGroups == 2

NodeClass == "WriteIO"

\* the name argument of a node: None or an explicit name
GivenNames == {NONE, "NodeA"}

\* the name argument of a group: None or an explicit name
GroupArgs == {NONE, "NamedGrp"}

DuplicateNodeNameError == "DuplicateNodeNameError"

\* Node.__post_init__: outside of a graph an unnamed node is named after its
\* class at once; inside a graph the name stays None until the graph is left
post_init_name(given, in_graph) ==
    IF given = NONE /\ ~in_graph THEN NodeClass ELSE given

NodeRec(given, group, session, in_graph) ==
    [name |-> post_init_name(given, in_graph), given |-> given, group |-> group,
     session |-> session, resolved |-> FALSE]

\* the name a node goes by before prefix and suffix
BaseName(n) == IF n.given = NONE THEN NodeClass ELSE n.given

\* a numbering that starts again with every entry of the project context
Rank_in_session(nodes, i) ==
    Cardinality({j \in 1..(i - 1) :
                    /\ BaseName(nodes[j]) = BaseName(nodes[i])
                    /\ nodes[j].group = nodes[i].group
                    /\ nodes[j].session = nodes[i].session})

\* the nodes of the same group created earlier under the same name
Rank(nodes, i) ==
    Cardinality({j \in 1..(i - 1) :
                    /\ BaseName(nodes[j]) = BaseName(nodes[i])
                    /\ nodes[j].group = nodes[i].group})

auto_suffix(k) == IF k = 0 THEN "" ELSE "_" \o ToString(k)

group_prefix(g) == IF g = "" THEN "" ELSE g \o "_"

LocalName(nodes, i, auto) ==
    BaseName(nodes[i]) \o (IF auto THEN auto_suffix(Rank(nodes, i)) ELSE "")

resolve_name(nodes, i, auto) ==
    group_prefix(nodes[i].group) \o LocalName(nodes, i, auto)

resolve_names(nodes, auto) ==
    [i \in 1..Len(nodes) |->
        IF nodes[i].resolved THEN nodes[i]
        ELSE [nodes[i] EXCEPT !.name = resolve_name(nodes, i, auto),
                              !.resolved = TRUE]]

HasDuplicates(nodes) ==
    \E i, j \in 1..Len(nodes) : i < j /\ nodes[i].name = nodes[j].name

\* an exit of the project context that accepts every name
exit_result_unchecked(nodes, auto) ==
    [nodes |-> resolve_names(nodes, auto), res |-> "ok"]

\* the exit of the project context: names are resolved in order of creation;
\* under strict naming a name that occurs twice is an error
exit_result(nodes, auto) ==
    LET named == resolve_names(nodes, auto) IN
    IF ~auto /\ HasDuplicates(named)
    THEN [nodes |-> nodes, res |-> DuplicateNodeNameError]
    ELSE [nodes |-> named, res |-> "ok"]

\* the working directory the build stores with the entry of a node
stored_nwd(nodes, i) ==
    IF nodes[i].group = "" THEN "nodes/" \o nodes[i].name
    ELSE "nodes/" \o nodes[i].group \o "/"
            \o SubSeq(nodes[i].name, Len(group_prefix(nodes[i].group)) + 1,
                      Len(nodes[i].name))

Entry(name, dir) == [name |-> name, nwd |-> dir]

NoNode == [how |-> "none", name |-> "", nwd |-> "", override |-> ABSENT]

NameInit ==
    /\ nAuto \in BOOLEAN
    /\ nOpen = FALSE
    /\ nSession = 0
    /\ nGroup = ""
    /\ nGroups = 0
    /\ nNodes = <<>>
    /\ nFiles = {}
    /\ nLoaded = NoNode
    /\ nRes = "none"

\* with project:
Project_enter ==
    /\ ~nOpen
    /\ nRes # DuplicateNodeNameError
    /\ nSession < MaxSessions
    /\ nOpen' = TRUE
    /\ nSession' = nSession + 1
    /\ nGroup' = ""
    /\ UNCHANGED <<nAuto, nGroups, nNodes, nFiles, nLoaded, nRes, notName>>

\* with project.group(name):
group_enter(name) ==
    /\ nOpen
    /\ nGroup = ""
    /\ name = NONE => nGroups < MaxGroups
    /\ nGroup' = IF name = NONE THEN "Group" \o ToString(nGroups + 1) ELSE name
    /\ nGroups' = IF name = NONE THEN nGroups + 1 ELSE nGroups
    /\ UNCHANGED <<nAuto, nOpen, nSession, nNodes, nFiles, nLoaded, nRes, notName>>

group_exit ==
    /\ nOpen
    /\ nGroup # ""
    /\ nGroup' = ""
    /\ UNCHANGED <<nAuto, nOpen, nSession, nGroups, nNodes, nFiles, nLoaded, nRes,
                   notName>>

\* WriteIO(name=given) inside the project context
Node_new(given) ==
    /\ nOpen
    /\ Len(nNodes) < MaxNodes
    /\ nNodes' = Append(nNodes, NodeRec(given, nGroup, nSession, TRUE))
    /\ UNCHANGED <<nAuto, nOpen, nSession, nGroup, nGroups, nFiles, nLoaded, nRes,
                   notName>>

\* WriteIO(name=given) outside of every graph
Node_new_outside(given) ==
    /\ ~nOpen
    /\ nLoaded' = [how |-> "new", name |-> post_init_name(given, FALSE),
                   nwd |-> nwd(post_init_name(given, FALSE)), override |-> ABSENT]
    /\ UNCHANGED <<nAuto, nOpen, nSession, nGroup, nGroups, nNodes, nFiles, nRes,
                   notName>>

\* the project context is left
Project_exit ==
    LET r == exit_result(nNodes, nAuto) IN
    /\ nOpen
    /\ nGroup = ""
    /\ nOpen' = FALSE
    /\ nNodes' = r.nodes
    /\ nRes' = r.res
    /\ UNCHANGED <<nAuto, nSession, nGroup, nGroups, nFiles, nLoaded, notName>>

\* project.build(): the entries of the nodes are written
Project_build ==
    LET new == {Entry(nNodes[i].name, stored_nwd(nNodes, i)) : i \in 1..Len(nNodes)}
    IN /\ ~nOpen
       /\ nRes = "ok"
       /\ nFiles' = {e \in nFiles : \A n \in new : n.name # e.name} \cup new
       /\ UNCHANGED <<nAuto, nOpen, nSession, nGroup, nGroups, nNodes, nLoaded, nRes,
                      notName>>

\* the nwd of an entry of zntrack.json is overwritten or removed by hand
edit_nwd(name, dir) ==
    /\ \E e \in nFiles : e.name = name /\ e.nwd # dir
    /\ nFiles' = {e \in nFiles : e.name # name} \cup {Entry(name, dir)}
    /\ UNCHANGED <<nAuto, nOpen, nSession, nGroup, nGroups, nNodes, nLoaded, nRes,
                   notName>>

\* WriteIO.from_rev(name) of core/node.py, then node.nwd
Node_from_rev(name) ==
    /\ \E e \in nFiles :
          /\ e.name = name
          /\ nLoaded' = [how |-> "from_rev", name |-> name, nwd |-> nwd(name),
                         override |-> e.nwd]
    /\ UNCHANGED <<nAuto, nOpen, nSession, nGroup, nGroups, nNodes, nFiles, nRes,
                   notName>>

PersistedNames == {e.name : e \in nFiles}

NextNames ==
    \/ Project_enter
    \/ \E name \in GroupArgs : group_enter(name)
    \/ group_exit
    \/ \E given \in GivenNames : Node_new(given)
    \/ Project_exit
    \/ Project_build

InitNames ==
    NodeInit /\ RTIdle /\ GraphIdle /\ ProjIdle /\ LoadIdle /\ SerIdle /\ NameInit
        /\ RestIdle

SpecNames == InitNames /\ [][NextNames]_vars


\* the name of the k-th node (from 0) created without a name outside of groups
ExpectedAutoName(k) ==
    CASE k = 0 -> "WriteIO"
      [] k = 1 -> "WriteIO_1"
      [] k = 2 -> "WriteIO_2"
      [] OTHER -> "WriteIO_" \o ToString(k)

Unnamed(i) == nNodes[i].given = NONE /\ nNodes[i].group = ""

\* C13: with automatic names the nodes created without a name are named
\* WriteIO, WriteIO_1, WriteIO_2, ... in order of creation, also across
\* entries of the project context, and a name once assigned never changes
C13_AutoNames ==
    /\ [](nAuto =>
            \A i \in 1..Len(nNodes) :
               (nNodes[i].resolved /\ Unnamed(i)) =>
                  nNodes[i].name
                     = ExpectedAutoName(Cardinality({j \in 1..(i - 1) : Unnamed(j)})))
    /\ [][\A i \in 1..Len(nNodes) :
             nNodes[i].resolved =>
                /\ Len(nNodes') >= i
                /\ nNodes'[i].name = nNodes[i].name]_vars

\* C13 witness: two nodes named in a first session and a third one created in
\* a second session
C13_Witness ==
    /\ nAuto /\ ~nOpen /\ Len(nNodes) = 3
    /\ \A i \in 1..3 : Unnamed(i) /\ nNodes[i].resolved
    /\ nNodes[2].session = 1 /\ nNodes[3].session = 2
    /\ nNodes[3].name = "WriteIO_2"

FullBase(n) == group_prefix(n.group) \o BaseName(n)

\* C14: under strict naming the exit of the project context raises
\* DuplicateNodeNameError exactly when two nodes have the same name, and the
\* files are as they were before
C14_StrictDuplicates ==
    /\ []((~nAuto /\ ~nOpen /\ nRes # "none") =>
            (nRes = DuplicateNodeNameError
               <=> \E i, j \in 1..Len(nNodes) :
                      i < j /\ FullBase(nNodes[i]) = FullBase(nNodes[j])))
    /\ [][nRes' = DuplicateNodeNameError => nFiles' = nFiles]_vars

\* C14 witness: a built project whose second session creates a node under a
\* name of the first one
C14_Witness ==
    /\ ~nAuto /\ nRes = DuplicateNodeNameError /\ nFiles # {}
    /\ \E i, j \in 1..Len(nNodes) :
          i < j /\ nNodes[i].given = "NodeA" /\ nNodes[j].given = "NodeA"
             /\ nNodes[i].group = nNodes[j].group

\* C15: a node X of group G is named G_X and works in nodes/G/X, the suffixes
\* are counted inside each group, unnamed groups are Group1, Group2, ..., and
\* a node outside of groups works in nodes/<name>
C15_GroupNames ==
    \A i \in 1..Len(nNodes) :
       nNodes[i].resolved =>
          IF nNodes[i].group = ""
          THEN nwd(nNodes[i].name) = "nodes/" \o nNodes[i].name
          ELSE /\ nNodes[i].group \in {"Group1", "Group2", "Group3", "NamedGrp"}
               /\ nNodes[i].name
                     = nNodes[i].group \o "_" \o LocalName(nNodes, i, nAuto)
               /\ nwd(nNodes[i].name)
                     = "nodes/" \o nNodes[i].group \o "/"
                          \o LocalName(nNodes, i, nAuto)

\* the entries a build of test_groups_nwd leaves in zntrack.json
BuiltEntries ==
    {Entry("WriteIO", "nodes/WriteIO"),
     Entry("Group1_WriteIO", "nodes/Group1/WriteIO"),
     Entry("CustomGroup_WriteIO", "nodes/CustomGroup/WriteIO")}

\* a built workspace and no project in memory
NwdInit ==
    /\ nAuto = TRUE
    /\ nOpen = FALSE
    /\ nSession = 0
    /\ nGroup = ""
    /\ nGroups = 0
    /\ nNodes = <<>>
    /\ nFiles \in (SUBSET BuiltEntries) \ {{}}
    /\ nLoaded = NoNode
    /\ nRes = "none"

NextNwd ==
    \/ \E given \in GivenNames : Node_new_outside(given)
    \/ \E name \in PersistedNames, dir \in {ABSENT, "test"} : edit_nwd(name, dir)
    \/ \E name \in PersistedNames : Node_from_rev(name)

InitNwd ==
    NodeInit /\ RTIdle /\ GraphIdle /\ ProjIdle /\ LoadIdle /\ SerIdle /\ NwdInit
        /\ RestIdle

SpecNwd == InitNwd /\ [][NextNwd]_vars

\* C16: the working directory of a loaded node is the nwd stored with its
\* entry when there is one, and the computed nodes/<name> when there is none
C16_OverrideWins ==
    nLoaded.how = "from_rev" =>
        nLoaded.nwd = IF nLoaded.override # ABSENT THEN nLoaded.override
                      ELSE "nodes/" \o nLoaded.name

----------------------------------------------------------------------------
(* experiments: queue, run_all and load of ZnTrackProject *)

\* experiments created without a name in one behaviour
MaxAutoExps == 1

ExpValues == {"Hello World", "Lorem Ipsum"}

NamedExps == {"exp1", "exp2"}

AutoName(k) == "auto-exp-" \o ToString(k)

AllExps == NamedExps \cup {AutoName(k) : k \in 1..MaxAutoExps}

WORKSPACE == "workspace"

NoExp == [status |-> "none", inputs |-> "", outputs |-> ""]

\* WriteIO.run
WriteIO_run(inputs) == inputs

\* an experiment whose override is written to the workspace
queue_result_in_workspace(work, value) ==
    [work |-> [work EXCEPT !.inputs = value],
     exp |-> [status |-> "queued", inputs |-> value, outputs |-> ""]]

\* `dvc exp run --name <name> --queue` with the parameter overridden: the
\* experiment is stored with the override, the workspace is as before
queue_result(work, value) ==
    [work |-> work,
     exp |-> [status |-> "queued", inputs |-> value, outputs |-> ""]]

\* `dvc exp run --run-all`: every queued experiment is run
run_all_result(exps) ==
    [e \in DOMAIN exps |->
        IF exps[e].status = "queued"
        THEN [exps[e] EXCEPT !.status = "done",
                             !.outputs = WriteIO_run(exps[e].inputs)]
        ELSE exps[e]]

\* an apply that moves the experiment into the workspace
apply_result_consuming(work, exps, name) ==
    [work |-> [work EXCEPT !.inputs = exps[name].inputs,
                           !.outputs = exps[name].outputs],
     exps |-> [exps EXCEPT ![name] = NoExp]]

\* `dvc exp apply <name>`: the workspace takes the values of the experiment
apply_result(work, exps, name) ==
    [work |-> [work EXCEPT !.inputs = exps[name].inputs,
                           !.outputs = exps[name].outputs],
     exps |-> exps]

ExpInit ==
    /\ \E v \in ExpValues :
          eWork = [inputs |-> v, outputs |-> WriteIO_run(v), untracked |-> "Hello World"]
    /\ eExps = [e \in AllExps |-> NoExp]
    /\ eAuto = 0
    /\ eHead = [now |-> "", before |-> ""]
    /\ eLoaded = [rev |-> "", inputs |-> "", outputs |-> ""]
    /\ eOp = "none"

\* an experiment is created with the parameter of the node overridden
queue(name, value) ==
    LET target == IF name = NONE THEN AutoName(eAuto + 1) ELSE name
        r == queue_result(eWork, value)
    IN /\ name = NONE => eAuto < MaxAutoExps
       /\ eExps[target].status = "none"
       /\ eWork' = r.work
       /\ eExps' = [eExps EXCEPT ![target] = r.exp]
       /\ eAuto' = IF name = NONE THEN eAuto + 1 ELSE eAuto
       /\ eOp' = "queue"
       /\ UNCHANGED <<eHead, eLoaded, notExp>>

run_all ==
    /\ \E e \in AllExps : eExps[e].status = "queued"
    /\ eExps' = run_all_result(eExps)
    /\ eOp' = "run_all"
    /\ UNCHANGED <<eWork, eAuto, eHead, eLoaded, notExp>>

\* ZnTrackProject.load(name)
load(name) ==
    LET r == apply_result(eWork, eExps, name) IN
    /\ eExps[name].status = "done"
    /\ eWork' = r.work
    /\ eExps' = r.exps
    /\ eHead' = [now |-> name, before |-> eHead.now]
    /\ eOp' = "load"
    /\ UNCHANGED <<eAuto, eLoaded, notExp>>

\* from_rev of the node: of an experiment, or unscoped of the workspace
exp_from_rev(rev) ==
    /\ rev \in AllExps => eExps[rev].status = "done"
    /\ eLoaded' = IF rev = WORKSPACE
                  THEN [rev |-> rev, inputs |-> eWork.inputs, outputs |-> eWork.outputs]
                  ELSE [rev |-> rev, inputs |-> eExps[rev].inputs,
                        outputs |-> eExps[rev].outputs]
    /\ eOp' = "from_rev"
    /\ UNCHANGED <<eWork, eExps, eAuto, eHead, notExp>>

NextExp ==
    \/ \E name \in NamedExps \cup {NONE}, value \in ExpValues : queue(name, value)
    \/ run_all
    \/ \E name \in AllExps : load(name)
    \/ \E rev \in AllExps \cup {WORKSPACE} : exp_from_rev(rev)

InitExp ==
    NodeInit /\ RTIdle /\ GraphIdle /\ ProjIdle /\ LoadIdle /\ SerIdle /\ NameIdle
        /\ ExpInit /\ PlotIdle /\ LateIdle

SpecExp == InitExp /\ [][NextExp]_vars

\* C17: creating an experiment leaves the parameter and the output stored in
\* the workspace and the untracked file as they were, and a load of the
\* experiment by its name returns the override and the output computed from it
C17_ExperimentIsolated ==
    /\ [][eOp' = "queue" => eWork' = eWork]_vars
    /\ []((eOp = "from_rev" /\ eLoaded.rev \in AllExps) =>
            /\ eLoaded.inputs = eExps[eLoaded.rev].inputs
            /\ eLoaded.outputs = WriteIO_run(eLoaded.inputs))

\* C17 witness: an unnamed experiment whose override differs from the
\* workspace, loaded by its name
C17_Witness ==
    /\ eOp = "from_rev" /\ eLoaded.rev = AutoName(1)
    /\ eLoaded.inputs # eWork.inputs
    /\ eLoaded.outputs = eLoaded.inputs
    /\ eHead.now = ""

\* C18: after an apply the unscoped load returns the values of the applied
\* experiment, and no step removes or changes an experiment that has been run
C18_RevisionsAdditive ==
    /\ [](eHead.now # "" =>
            /\ eWork.inputs = eExps[eHead.now].inputs
            /\ eWork.outputs = eExps[eHead.now].outputs)
    /\ []((eOp = "from_rev" /\ eLoaded.rev = WORKSPACE /\ eHead.now # "") =>
            /\ eLoaded.inputs = eExps[eHead.now].inputs
            /\ eLoaded.outputs = eExps[eHead.now].outputs)
    /\ [][\A e \in AllExps : eExps[e].status = "done" => eExps'[e] = eExps[e]]_vars

\* C18 witness: exp2 applied, then exp1 applied, and the unscoped load returns
\* the values of exp1, which are not those of exp2
C18_Witness ==
    /\ eOp = "from_rev" /\ eLoaded.rev = WORKSPACE
    /\ eHead = [now |-> "exp1", before |-> "exp2"]
    /\ eLoaded.inputs = eExps["exp1"].inputs
    /\ eExps["exp1"].inputs # eExps["exp2"].inputs
    /\ eExps["exp2"].status = "done"

----------------------------------------------------------------------------
(* NodeStatus.extend_plots (zntrack/state.py) *)

\* rows appended to the plots field in one behaviour
MaxRows == 3

InvalidOptionError == "InvalidOptionError"

\* the fields of RangePlotter with the option they are declared with; name is
\* a field without an option
PlotterFields == <<"name", "start", "stop", "plots">>

option_type(attribute) ==
    CASE attribute = "plots" -> "PLOTS"
      [] attribute \in {"start", "stop"} -> "PARAMS"
      [] OTHER -> NONE

\* the attributes extend_plots is called with
Attributes == {"plots", "start", "name", "missing"}

PlotRows == {"idx=0", "idx=1"}

\* ZNTRACK_PLUGINS: the default and the one of the mlflow tests
PluginEnvs == {<<"DVCPlugin">>, PluginSeq}

Frame(rows) == [state |-> "frame", rows |-> rows]
Sentinel(v) == [state |-> v, rows |-> <<>>]

Declared(attribute) == \E k \in 1..Len(PlotterFields) : PlotterFields[k] = attribute

PlotCall(attribute, data, handed, res, msg) ==
    [name |-> "extend_plots", attribute |-> attribute, data |-> data,
     handed |-> handed, res |-> res, msg |-> msg]

NoPlotCall ==
    [name |-> "none", attribute |-> "", data |-> "", handed |-> <<>>, res |-> "",
     msg |-> <<>>]

\* the table the new row is appended to: the field, or an empty table when
\* the read raises NodeNotAvailableError or gives one of the two sentinels
plot_target(fields) ==
    IF fields.plots.state = "frame" THEN fields.plots.rows ELSE <<>>

\* a call that appends to the plots field whatever attribute is named
extend_plots_result_unchecked(env, fields, attribute, data) ==
    LET df == Append(plot_target(fields), data) IN
    [fields |-> [fields EXCEPT !.plots = Frame(df)],
     call |-> PlotCall(attribute, data,
                       [k \in 1..Len(env) |->
                           [plugin |-> env[k], attribute |-> attribute,
                            data |-> data, reference |-> df]],
                       "ok", <<>>)]

\* a call that replaces the table by the new row
extend_plots_result_overwrite(env, fields, attribute, data) ==
    IF ~Declared(attribute)
    THEN [fields |-> fields,
          call |-> PlotCall(attribute, data, <<>>, InvalidOptionError,
                            <<attribute, "not found">>)]
    ELSE IF option_type(attribute) # "PLOTS"
    THEN [fields |-> fields,
          call |-> PlotCall(attribute, data, <<>>, InvalidOptionError,
                            <<attribute, option_type(attribute)>>)]
    ELSE [fields |-> [fields EXCEPT !.plots = Frame(<<data>>)],
          call |-> PlotCall(attribute, data,
                            [k \in 1..Len(env) |->
                                [plugin |-> env[k], attribute |-> attribute,
                                 data |-> data, reference |-> <<data>>]],
                            "ok", <<>>)]

\* extend_plots(attribute, data)
extend_plots_result(env, fields, attribute, data) ==
    IF ~Declared(attribute)
    THEN [fields |-> fields,
          call |-> PlotCall(attribute, data, <<>>, InvalidOptionError,
                            <<attribute, "not found">>)]
    ELSE IF option_type(attribute) # "PLOTS"
    THEN [fields |-> fields,
          call |-> PlotCall(attribute, data, <<>>, InvalidOptionError,
                            <<attribute, option_type(attribute)>>)]
    ELSE LET df == Append(plot_target(fields), data) IN
         [fields |-> [fields EXCEPT !.plots = Frame(df)],
          call |-> PlotCall(attribute, data,
                            [k \in 1..Len(env) |->
                                [plugin |-> env[k], attribute |-> attribute,
                                 data |-> data, reference |-> df]],
                            "ok", <<>>)]

PlotInit ==
    /\ xEnv \in PluginEnvs
    /\ \E unset \in {ZNTRACK_LAZY_VALUE, NOT_AVAILABLE} :
          xFields = [plots |-> Sentinel(unset), start |-> "0"]
    /\ xHistory = <<>>
    /\ xOp = NoPlotCall

extend_plots(attribute, data) ==
    LET r == extend_plots_result(xEnv, xFields, attribute, data) IN
    /\ Len(plot_target(xFields)) < MaxRows
    /\ xFields' = r.fields
    /\ xOp' = r.call
    /\ xHistory' = IF r.call.res = "ok" THEN Append(xHistory, data) ELSE xHistory
    /\ UNCHANGED <<xEnv, notPlot>>

NextPlot ==
    \E attribute \in Attributes, data \in PlotRows : extend_plots(attribute, data)

InitPlot ==
    NodeInit /\ RTIdle /\ GraphIdle /\ ProjIdle /\ LoadIdle /\ SerIdle /\ NameIdle
        /\ ExpIdle /\ PlotInit /\ LateIdle

SpecPlot == InitPlot /\ [][NextPlot]_vars

\* C19: extend_plots on an attribute that is not a plots field raises
\* InvalidOptionError, which names the attribute and, for a declared field,
\* its option; the fields are as before and no plugin is called
C19_InvalidOption ==
    /\ []((xOp.name = "extend_plots" /\ xOp.attribute # "plots") =>
            /\ xOp.res = InvalidOptionError
            /\ xOp.handed = <<>>
            /\ xOp.msg[1] = xOp.attribute
            /\ Declared(xOp.attribute) => xOp.msg[2] = option_type(xOp.attribute))
    /\ [][xOp'.res = InvalidOptionError => xFields' = xFields]_vars

\* C19 witness: a node with one row whose params field start is named
C19_Witness ==
    /\ xOp.res = InvalidOptionError
    /\ xOp.attribute = "start"
    /\ xOp.msg = <<"start", "PARAMS">>
    /\ Len(plot_target(xFields)) = 1

\* C20: from an unset plots field on, the field holds the rows of the calls
\* that returned, in call order, and a call hands its row to each configured
\* plugin once, in order
C20_RowsAppended ==
    /\ plot_target(xFields) = xHistory
    /\ xOp.res = "ok" =>
          /\ Len(xOp.handed) = Len(xEnv)
          /\ \A k \in 1..Len(xEnv) :
                /\ xOp.handed[k].plugin = xEnv[k]
                /\ xOp.handed[k].data = xOp.data
                /\ xOp.handed[k].reference = xHistory

\* C20 witness: three calls with two plugins configured
C20_Witness ==
    /\ xEnv = PluginSeq
    /\ xOp.res = "ok"
    /\ xHistory = <<"idx=0", "idx=1", "idx=0">>
    /\ xFields.plots = Frame(xHistory)

----------------------------------------------------------------------------
(* Reading the fields of a node *)

\* C21 (as claimed): a read of a field that stores the not-available sentinel
\* raises NodeNotAvailableError, and no read returns the sentinel
C21_SentinelRaises ==
    /\ [](op.name = "getattr" => op.res # NOT_AVAILABLE)
    /\ [][(op'.name = "getattr" /\ inst.dict[op'.field] = NOT_AVAILABLE)
            => op'.res = "NodeNotAvailableError"]_vars

\* the output path of WriteDVCOuts as the class declares it
OutsPath == NWD_PLACEHOLDER \o "/output.txt"

WriteDVCOutsName == "WriteDVCOuts"

\* WriteDVCOuts(params=p), constructed directly
WriteDVCOuts_init(p) ==
    /\ inst' = [alive |-> TRUE,
                dict |-> [f \in FieldNames |->
                            IF f = "name" THEN WriteDVCOutsName
                            ELSE IF f = "params" THEN p ELSE OutsPath],
                hasState |-> FALSE,
                st |-> NoState]
    /\ op' = Call("init", "", "ok", <<>>)
    /\ UNCHANGED <<disk, nodeMeta, rtVars, graphVars, projVars, extVars>>

\* project.run() after project.build(): the built node runs and is saved, and
\* the instance of the session holds what the run produced
project_run ==
    LET r == ParamsToOuts_run(inst, disk)
        s == save_result(r.node, disk)
    IN  /\ inst.alive
        /\ inst.dict["name"] = NodeName
        /\ disk.params # ABSENT
        /\ disk.params = inst.dict["params"]
        /\ inst' = s.node
        /\ disk' = s.disk
        /\ op' = Call("project_run", "", s.res, s.handed)
        /\ UNCHANGED <<nodeMeta, rtVars, graphVars, projVars, extVars>>

NextDirect ==
    \/ \E p \in ParamVals : Node_init(p)
    \/ \E p \in ParamVals : WriteDVCOuts_init(p)
    \/ build
    \/ state
    \/ \E f \in FieldNames : getattr(f)
    \/ project_run

InitDirect == Init

SpecDirect == InitDirect /\ [][NextDirect]_vars

\* C22: on a directly constructed node a read of an output that was not
\* produced returns NOT_AVAILABLE, a read of a parameter returns the value the
\* node was constructed with, and no read changes what is stored: a stored
\* path with the working-directory placeholder is resolved in the returned
\* value only; after build and run the same instance stores the produced value
\* and returns it
C22_DirectReads ==
    [][/\ \A p \in ParamVals :
            (Node_init(p) \/ WriteDVCOuts_init(p)) => inst'.dict["params"] = p
       /\ Node_init("42") => inst'.dict["outs"] = NOT_AVAILABLE
       /\ op'.name = "getattr"
            => /\ inst'.dict = inst.dict
               /\ inst.dict[op'.field] = NOT_AVAILABLE => op'.res = NOT_AVAILABLE
               /\ op'.field = "params" => op'.res = inst.dict["params"]
               /\ inst.dict[op'.field] = OutsPath
                    => op'.res = "nodes/WriteDVCOuts/output.txt"
       /\ (inst.alive /\ op'.name # "init")
            => inst'.dict["params"] = inst.dict["params"]
       /\ (op'.name = "project_run" /\ op'.res = "ok")
            => /\ inst'.dict["outs"] = inst.dict["params"]
               /\ getter(inst', disk', "outs").res = inst.dict["params"]
               /\ getter(inst', disk', "outs").node = inst']_vars

\* C22 witness: the placeholder is still stored after the path was read
C22_Witness ==
    /\ op.name = "getattr" /\ op.field = "outs"
    /\ op.res = "nodes/WriteDVCOuts/output.txt"
    /\ inst.dict["outs"] = OutsPath

----------------------------------------------------------------------------
(* Partial build and run: project.build(nodes=...), project.run(nodes=...) *)

\* the nodes of the project and its groups
SelNodes == {"WriteIO", "Group1_WriteIO", "Group1_WriteIO_1"}
SelGroups == {"Group1", "Group2"}
SelValues == {"Lorem Ipsum", "ABC"}

\* the nodes created inside a group; nothing was created inside Group2
group_nodes(g) ==
    IF g = "Group1" THEN {"Group1_WriteIO", "Group1_WriteIO_1"} ELSE {}

\* what a selection list may hold: nodes, groups, and a value that is neither
Members == SelNodes \cup SelGroups \cup {"42"}

\* the nodes= argument: None, an integer, a list of one member, or a list of
\* a node or group followed by a node or by the value that is neither
SelNone == [type |-> "NoneType", members |-> <<>>]
SelInt == [type |-> "int", members |-> <<>>]
SelList(members) == [type |-> "list", members |-> members]
Selections ==
    {SelNone, SelInt}
        \cup {SelList(<<a>>) : a \in Members}
        \cup {SelList(<<a, b>>) : a \in {"WriteIO", "Group1"},
                                  b \in {"Group1_WriteIO", "42"}}

\* the nodes a member of a selection list stands for
member_nodes(m) ==
    IF m \in SelNodes THEN {m}
    ELSE IF m \in SelGroups THEN group_nodes(m)
    ELSE {}

\* a selection that skips what it cannot resolve and takes a non-list for all
select_result_unchecked(sel) ==
    IF sel.type # "list"
    THEN [res |-> "ok", nodes |-> SelNodes]
    ELSE [res |-> "ok",
          nodes |-> UNION {member_nodes(sel.members[i]) :
                              i \in 1..Len(sel.members)}]

\* the nodes a selection resolves to: all nodes without a selection, a type
\* error for a selection that is not a list, a value error for a member that
\* is empty or unknown
select_result(sel) ==
    IF sel.type = "NoneType"
    THEN [res |-> "ok", nodes |-> SelNodes]
    ELSE IF sel.type # "list"
    THEN [res |-> "TypeError", nodes |-> {}]
    ELSE IF \E i \in 1..Len(sel.members) : member_nodes(sel.members[i]) = {}
    THEN [res |-> "ValueError", nodes |-> {}]
    ELSE [res |-> "ok",
          nodes |-> UNION {member_nodes(sel.members[i]) :
                              i \in 1..Len(sel.members)}]

\* a build that writes the parameters of every node of the project
build_result_all(sel, mem, params) ==
    LET r == select_result(sel) IN
    IF r.res # "ok"
    THEN [res |-> r.res, params |-> params]
    ELSE [res |-> "ok", params |-> mem]

\* project.build(nodes=sel): the parameters of the selected nodes are written
build_result(sel, mem, params) ==
    LET r == select_result(sel) IN
    IF r.res # "ok"
    THEN [res |-> r.res, params |-> params]
    ELSE [res |-> "ok",
          params |-> [n \in SelNodes |->
                        IF n \in r.nodes THEN mem[n] ELSE params[n]]]

\* project.run(nodes=sel): the selected nodes are built and executed
run_result(sel, mem, params, outs) ==
    LET r == select_result(sel)
        b == build_result(sel, mem, params)
    IN  IF b.res # "ok"
        THEN [res |-> b.res, params |-> params, outs |-> outs]
        ELSE [res |-> "ok", params |-> b.params,
              outs |-> [n \in SelNodes |->
                          IF n \in r.nodes THEN WriteIO_run(b.params[n])
                          ELSE outs[n]]]

\* a call: its name, the type of its nodes= argument, whether the argument
\* holds a member that is empty or unknown, the nodes it names, how it ended
SelCall(name, type, bad, nodes, res) ==
    [name |-> name, type |-> type, bad |-> bad, nodes |-> nodes, res |-> res]

\* a selection list with a member that is not a node or a non-empty group
BadMember(sel) ==
    sel.type = "list"
        /\ \E i \in 1..Len(sel.members) :
              sel.members[i] \in {"42", "Group2"}

\* the nodes the members of a selection name
Named(sel) ==
    UNION {member_nodes(sel.members[i]) : i \in 1..Len(sel.members)}

SelInit ==
    /\ kMem \in [SelNodes -> {"Lorem Ipsum"}]
    /\ kParams = [n \in SelNodes |-> ABSENT]
    /\ kOuts = [n \in SelNodes |-> ABSENT]
    /\ kOp = SelCall("none", "", FALSE, {}, "ok")

\* node.inputs = v
set_inputs(n, v) ==
    /\ kMem' = [kMem EXCEPT ![n] = v]
    /\ kOp' = SelCall("set_inputs", "", FALSE, {n}, "ok")
    /\ UNCHANGED <<kParams, kOuts, notSel>>

build_nodes(sel) ==
    LET b == build_result(sel, kMem, kParams) IN
    /\ kParams' = b.params
    /\ kOp' = SelCall("build", sel.type, BadMember(sel), Named(sel), b.res)
    /\ UNCHANGED <<kMem, kOuts, notSel>>

run_nodes(sel) ==
    LET r == run_result(sel, kMem, kParams, kOuts) IN
    /\ kParams' = r.params
    /\ kOuts' = r.outs
    /\ kOp' = SelCall("run", sel.type, BadMember(sel), Named(sel), r.res)
    /\ UNCHANGED <<kMem, notSel>>

\* project.repro(): the backend executes every stage that was built
project_repro ==
    /\ kOuts' = [n \in SelNodes |->
                   IF kParams[n] # ABSENT THEN WriteIO_run(kParams[n])
                   ELSE kOuts[n]]
    /\ kOp' = SelCall("repro", "", FALSE, {}, "ok")
    /\ UNCHANGED <<kMem, kParams, notSel>>

\* zntrack.from_rev(node): a node that was never built has no stage to load
from_rev_node(n) ==
    /\ kOp' = SelCall("from_rev", "", FALSE, {n},
                      IF kParams[n] = ABSENT THEN "ValueError" ELSE "ok")
    /\ UNCHANGED <<kMem, kParams, kOuts, notSel>>

NextSel ==
    \/ \E n \in SelNodes, v \in SelValues : set_inputs(n, v)
    \/ \E sel \in Selections : build_nodes(sel)
    \/ \E sel \in Selections : run_nodes(sel)
    \/ project_repro
    \/ \E n \in SelNodes : from_rev_node(n)

InitSel == EarlyIdle /\ SelInit /\ IdIdle /\ RevIdle /\ Late2Idle

SpecSel == InitSel /\ [][NextSel]_vars

\* C23: a selection that is not a list raises TypeError, a selection list with
\* an empty or unknown member raises ValueError, and in both cases no parameter
\* is written and no node is run
C23_SelectionErrors ==
    [][kOp'.name \in {"build", "run"}
         => /\ kOp'.type = "int"
                => /\ kOp'.res = "TypeError"
                   /\ kParams' = kParams /\ kOuts' = kOuts
            /\ kOp'.bad
                => /\ kOp'.res = "ValueError"
                   /\ kParams' = kParams /\ kOuts' = kOuts]_vars

\* C23 witness: after a run of some nodes, run(nodes=[node, 42]) raised
C23_Witness ==
    /\ kOp.name = "run" /\ kOp.res = "ValueError"
    /\ kOp.nodes = {"WriteIO"}
    /\ kOuts["Group1_WriteIO"] # ABSENT
    /\ kMem["WriteIO"] # kParams["WriteIO"]

\* C24: a build or run of a selection writes the parameters and outputs of
\* the selected nodes only; every other node, also one whose inputs were
\* changed in the session, keeps what was persisted for it, and a node that
\* was never selected cannot be loaded
C24_OnlySelected ==
    /\ [][(kOp'.name \in {"build", "run"} /\ kOp'.type = "list")
            => \A n \in SelNodes \ kOp'.nodes :
                  kParams'[n] = kParams[n] /\ kOuts'[n] = kOuts[n]]_vars
    /\ [][\A n \in SelNodes :
            (kParams[n] = ABSENT /\ kParams'[n] # ABSENT)
               => /\ kOp'.name \in {"build", "run"}
                  /\ kOp'.type = "NoneType" \/ n \in kOp'.nodes]_vars
    /\ [][(kOp'.name = "from_rev" /\ \E n \in kOp'.nodes : kParams[n] = ABSENT)
            => kOp'.res = "ValueError"]_vars

\* C24 witness: a node whose inputs were changed after it was run still has
\* the old parameters and output after another node was run, and a third node
\* was never selected
C24_Witness ==
    /\ kOp.name = "run" /\ kOp.res = "ok" /\ kOp.nodes = {"WriteIO"}
    /\ kMem["Group1_WriteIO"] = "ABC"
    /\ kParams["Group1_WriteIO"] = "Lorem Ipsum"
    /\ kOuts["Group1_WriteIO"] = "Lorem Ipsum"
    /\ kOuts["WriteIO"] = "ABC"
    /\ kParams["Group1_WriteIO_1"] = ABSENT

----------------------------------------------------------------------------
(* zntrack/core/node.py: NodeIdentifier *)

\* the modules that define node classes, and what sys.argv[0] may be
IdModules == {"__main__", "md_nodes"}
Argv0 == {"ipykernel_launcher", "script"}
IdClasses == {"MD", "MLThermostat"}
IdGivenNames == {NONE, "multiple_deps_MD"}
Origins == {"workspace", "remote"}
Revs == {"HEAD", "rev1"}

NoIdNode ==
    [alive |-> FALSE, module |-> "", cls |-> "", name |-> "", origin |-> "",
     rev |-> "", loaded |-> FALSE]
NoId == [made |-> FALSE, module |-> "", cls |-> "", name |-> "", origin |-> "",
         rev |-> ""]

\* utils.module_handler: the module of the object, or the name of the script
\* for an object of __main__ outside of a notebook
module_handler(module, argv0) ==
    IF module # "__main__" THEN module
    ELSE IF argv0 = "ipykernel_launcher" THEN module
    ELSE argv0

\* importlib.import_module: the module that the classes it holds belong to
import_module(module) == module

\* the class MD declares a Text field, MLThermostat declares none
has_Text(cls) == cls = "MD"

\* Node.load of core/node.py: Text.load raises when dvc.yaml has no stage of
\* the node; then state.loaded stays False
core_load(node, stage) ==
    IF has_Text(node.cls) /\ ~stage
    THEN [node |-> node, res |-> "KeyError"]
    ELSE [node |-> [node EXCEPT !.loaded = TRUE], res |-> "ok"]

\* Node.from_rev of core/node.py: a new instance with the name and the state
\* given, then load()
core_from_rev(module, cls, name, origin, rev, stage) ==
    LET node == [alive |-> TRUE, module |-> module, cls |-> cls,
                 name |-> IF name # NONE THEN name ELSE cls,
                 origin |-> origin, rev |-> rev, loaded |-> FALSE]
    IN  core_load(node, stage)

\* NodeIdentifier.from_node
NodeIdentifier_from_node(node, argv0) ==
    [made |-> TRUE, module |-> module_handler(node.module, argv0),
     cls |-> node.cls, name |-> node.name, origin |-> node.origin,
     rev |-> node.rev]

\* a get_node that loads the node by its name only, from the workspace at HEAD
NodeIdentifier_get_node_by_name(id, stage) ==
    core_from_rev(import_module(id.module), id.cls, id.name, "workspace", "HEAD",
                  stage)

\* NodeIdentifier.get_node
NodeIdentifier_get_node(id, stage) ==
    core_from_rev(import_module(id.module), id.cls, id.name, id.origin, id.rev,
                  stage)

IdCall(name, calls, res) == [name |-> name, calls |-> calls, res |-> res]

IdInit ==
    /\ iArgv \in Argv0
    /\ iStage = FALSE
    /\ iNode = NoIdNode
    /\ iId = NoId
    /\ iGot = NoIdNode
    /\ iOp = IdCall("none", <<>>, "ok")

\* a node constructed in the session: _post_init_ names it after its class
\* when no name is given, and its state is created with the defaults
id_Node_init(module, cls, given) ==
    /\ iNode' = [alive |-> TRUE, module |-> module, cls |-> cls,
                 name |-> IF given = NONE THEN cls ELSE given,
                 origin |-> "workspace", rev |-> "HEAD", loaded |-> FALSE]
    /\ iId' = NoId
    /\ iGot' = NoIdNode
    /\ iOp' = IdCall("init", <<"_post_init_">>, "ok")
    /\ UNCHANGED <<iArgv, iStage, notId>>

\* cls.from_rev(name, origin, rev) in the session
id_from_rev(module, cls, given, origin, rev) ==
    LET r == core_from_rev(module, cls, given, origin, rev, iStage) IN
    /\ r.res = "ok"
    /\ iNode' = r.node
    /\ iId' = NoId
    /\ iGot' = NoIdNode
    /\ iOp' = IdCall("from_rev", <<"from_rev", "load">>, r.res)
    /\ UNCHANGED <<iArgv, iStage, notId>>

\* the stage of the node is added to dvc.yaml, or the graph is removed
write_stage(present) ==
    /\ iStage # present
    /\ iStage' = present
    /\ iOp' = IdCall("write_stage", <<>>, "ok")
    /\ UNCHANGED <<iArgv, iNode, iId, iGot, notId>>

from_node ==
    /\ iNode.alive
    /\ iId' = NodeIdentifier_from_node(iNode, iArgv)
    /\ iGot' = NoIdNode
    /\ iOp' = IdCall("from_node", <<>>, "ok")
    /\ UNCHANGED <<iArgv, iStage, iNode, notId>>

get_node ==
    LET r == NodeIdentifier_get_node(iId, iStage) IN
    /\ iId.made
    /\ iGot' = IF r.res = "ok" THEN r.node ELSE NoIdNode
    /\ iOp' = IdCall("get_node", <<"import_module", "from_rev", "load">>, r.res)
    /\ UNCHANGED <<iArgv, iStage, iNode, iId, notId>>

\* the setter of descriptor_parameters finds a reference to the node among
\* the values of a dependency: load_zntrack_node resolves the reference
load_reference ==
    LET id == NodeIdentifier_from_node(iNode, iArgv)
        r == NodeIdentifier_get_node(id, iStage)
    IN  /\ iNode.alive
        /\ iId' = id
        /\ iGot' = IF r.res = "ok" THEN r.node ELSE NoIdNode
        /\ iOp' = IdCall("load_zntrack_node",
                         <<"import_module", "from_rev", "load">>, r.res)
        /\ UNCHANGED <<iArgv, iStage, iNode, notId>>

NextId ==
    \/ \E module \in IdModules, cls \in IdClasses, given \in IdGivenNames :
          id_Node_init(module, cls, given)
    \/ \E module \in IdModules, cls \in IdClasses, given \in IdGivenNames,
          origin \in Origins, rev \in Revs :
          id_from_rev(module, cls, given, origin, rev)
    \/ \E present \in BOOLEAN : write_stage(present)
    \/ from_node
    \/ get_node
    \/ load_reference

InitId == EarlyIdle /\ SelIdle /\ IdInit /\ RevIdle /\ Late2Idle

SpecId == InitId /\ [][NextId]_vars

----------------------------------------------------------------------------
(* Eager loading and the states of a node *)

\* C26: when from_rev(lazy_evaluation=False) returns, every field of the node
\* was read: no field is deferred and every tracked field holds what the files
\* of the node hold
C26_EagerLoadsAll ==
    (/\ op.name \in {"from_rev", "from_rev_running"}
     /\ op.res = "ok"
     /\ ~inst.st.lazy_evaluation)
        => /\ \A f \in FieldNames : ~Deferred(f)
           /\ \A f \in DataFields : disk[f] # ABSENT /\ inst.dict[f] = disk[f]

\* C26 witness: an eager from_rev returned with the produced output
C26_Witness ==
    /\ op.name = "from_rev" /\ op.res = "ok"
    /\ ~inst.st.lazy_evaluation
    /\ inst.dict["outs"] \in ParamVals
    /\ inst.dict["params"] = inst.dict["outs"]

\* no file of the workspace records the stage of the node
NoStage ==
    /\ lFiles.meta \in {"no file", "no stage"}
    /\ lFiles.params = ABSENT /\ lFiles.zntrack = ABSENT /\ lFiles.outs = ABSENT

\* C27 (as claimed): loading a node for which no stage is recorded ends with
\* ValueError or NodeNotAvailableError, never with a node of default values
C27_NoStageFails ==
    (lOp.name \in {"update_options", "post_init", "Node.load"} /\ NoStage)
        => /\ lOp.res \in {"ValueError", "NodeNotAvailableError"}
           /\ ~lLoaded

\* C28 (as claimed): the state of a node becomes FINISHED only from RUNNING:
\* no call on a constructed node takes it to FINISHED from another state
C28_FinishedAfterRunning ==
    [][(~Constructs(op'.name) /\ inst.st.state # FINISHED
          /\ inst'.st.state = FINISHED)
         => inst.hasState /\ inst.st.state = RUNNING]_vars

\* C29 (as claimed): after update_run_count the state is RUNNING, and a node
\* whose state was read before the call ends as one whose state was not read
C29_RunningAfterUpdate ==
    [][op'.name = "update_run_count"
         => /\ inst'.st.state = RUNNING
            /\ (~inst.hasState \/ inst.st = NodeStatus(0, CREATED, TRUE))
                 => inst'.st = NodeStatus(1, RUNNING, TRUE)]_vars

----------------------------------------------------------------------------
(* from_rev of a remote and a revision: the run count of node-meta.json *)

\* DVCFileSystem(url, rev): "." is the repository of the workspace, and no
\* revision stands for the files of the workspace
Remotes == {".", "remote"}
RevArgs == {NONE, "rev1"}
Locations == Remotes \X RevArgs
Workspace == <<".", NONE>>

\* instance.state.fs.open(nwd / "node-meta.json") for a state with the remote
\* and the revision given
fs_open(meta, remote, rev) == meta[<<remote, rev>>]

\* node-meta.json: missing, or holding a run count
NoMeta == [exists |-> FALSE, run_count |-> 0]
MetaFile(run_count) == [exists |-> TRUE, run_count |-> run_count]

\* the status that the state property creates when __dict__ has none
default_state == [remote |-> ".", rev |-> NONE, run_count |-> 0]

\* Node.from_rev: the run count is read through instance.state before the
\* state with the requested remote and revision is stored
rev_from_rev_result(meta, remote, rev) ==
    LET content == fs_open(meta, default_state.remote, default_state.rev)
        run_count == IF ~content.exists THEN 0 ELSE content.run_count
    IN  [remote |-> remote, rev |-> rev, run_count |-> run_count]

RevInit ==
    /\ vMeta = [l \in Locations |-> NoMeta]
    /\ vNode = default_state
    /\ vOp = "none"

\* an execution in the workspace: update_run_count writes node-meta.json
rev_update_run_count ==
    LET count == IF vMeta[Workspace].exists THEN vMeta[Workspace].run_count
                 ELSE 0 IN
    /\ count < MaxRuns
    /\ vMeta' = [vMeta EXCEPT ![Workspace] = MetaFile(count + 1)]
    /\ vOp' = "update_run_count"
    /\ UNCHANGED <<vNode, notRev>>

\* the files of the workspace become the revision, or are removed
git_commit ==
    /\ vMeta' = [vMeta EXCEPT ![<<".", "rev1">>] = vMeta[Workspace]]
    /\ vOp' = "commit"
    /\ UNCHANGED <<vNode, notRev>>

git_clean ==
    /\ vMeta[Workspace].exists
    /\ vMeta' = [vMeta EXCEPT ![Workspace] = NoMeta]
    /\ vOp' = "clean"
    /\ UNCHANGED <<vNode, notRev>>

\* the revision is pushed to the remote; its head is the revision pushed
git_push ==
    /\ vMeta' = [vMeta EXCEPT ![<<"remote", "rev1">>] = vMeta[<<".", "rev1">>],
                              ![<<"remote", NONE>>] = vMeta[<<".", "rev1">>]]
    /\ vOp' = "push"
    /\ UNCHANGED <<vNode, notRev>>

rev_from_rev(remote, rev) ==
    /\ vNode' = rev_from_rev_result(vMeta, remote, rev)
    /\ vOp' = "from_rev"
    /\ UNCHANGED <<vMeta, notRev>>

NextRev ==
    \/ rev_update_run_count
    \/ git_commit
    \/ git_clean
    \/ git_push
    \/ \E remote \in Remotes, rev \in RevArgs : rev_from_rev(remote, rev)

InitRev == EarlyIdle /\ SelIdle /\ IdIdle /\ RevInit /\ Late2Idle

SpecRev == InitRev /\ [][NextRev]_vars

\* C30 (as claimed): the node that from_rev(name, remote, rev) returns reports
\* the run count of node-meta.json at that remote and revision, and 0 when the
\* file is not there
C30_RunCountOfRevision ==
    vOp = "from_rev"
        => vNode.run_count =
              IF fs_open(vMeta, vNode.remote, vNode.rev).exists
              THEN fs_open(vMeta, vNode.remote, vNode.rev).run_count
              ELSE 0

----------------------------------------------------------------------------
(* Repeated executions of one node: state.restarted *)

\* a restart flag that is set from the first execution on
restarted_from_first(st) == st.run_count > 0

\* NodeStatus.restarted
restarted(st) == st.run_count > 1

\* the counter update of an execution: the node was loaded with running=True
exec_update_run_count ==
    /\ op.name = "from_rev_running"
    /\ op.res = "ok"
    /\ update_run_count

\* the executions of the built node, one at a time: from_rev(running=True),
\* update_run_count, run, save
NextExec ==
    \/ \E p \in ParamVals : Node_init(p)
    \/ build
    \/ \E lazy_evaluation \in BOOLEAN : from_rev(TRUE, lazy_evaluation)
    \/ exec_update_run_count
    \/ \E f \in FieldNames : getattr(f)
    \/ run(TRUE)
    \/ save

InitExec == Init

SpecExec == InitExec /\ [][NextExec]_vars

\* C31: restarted is run_count > 1; in the execution that follows n earlier
\* executions the counter is n + 1, so restarted is false in the first
\* execution and true in every later one
C31_RestartedAfterFirst ==
    /\ [](inst.hasState => (restarted(inst.st) <=> inst.st.run_count > 1))
    /\ [][op'.name = "update_run_count"
            => /\ inst'.st.run_count = Persisted + 1
               /\ Persisted' = Persisted + 1
               /\ restarted(inst'.st) <=> Persisted >= 1]_vars
    /\ [][(op.name = "update_run_count" /\ op'.name \in {"getattr", "run", "save"})
            => restarted(inst'.st) = restarted(inst.st)]_vars

\* C31 witness: the second execution ran and saved, and it is a restart
C31_Witness ==
    /\ op.name = "save" /\ op.res = "ok"
    /\ inst.st.run_count = 2
    /\ restarted(inst.st)
    /\ Persisted = 2

----------------------------------------------------------------------------
(* ZnTrackProject.run: the apply trials and the order of the steps *)

\* the positions of the log at which run attempted the apply
ApplyAttempts ==
    {k \in 1..Len(pLog) : pCall = "run" /\ InLoop("run", pLog[k].site)}

\* C32 (as claimed): run attempts the apply after the queue has run, at most
\* three times; an attempt that succeeds is the last one, a failure of the
\* first or second attempt is followed by another attempt, and the error
\* reaches the caller only when the third attempt fails
C32_ApplyUntilSuccess ==
    /\ Cardinality(ApplyAttempts) <= ApplyTrials
    /\ \A k \in ApplyAttempts :
          /\ \E j \in 1..(k - 1) :
                pLog[j].cmd = "dvc exp run --run-all" /\ pLog[j].ok
          /\ pLog[k].ok => k = Len(pLog) /\ pResult = "returned"
    /\ (pCall = "run" /\ pResult = "CalledProcessError" /\ ApplyAttempts # {})
          => Cardinality(ApplyAttempts) = ApplyTrials /\ ~pLog[Len(pLog)].ok

\* the step of run that the k-th attempted command belongs to
RunStep(k) == IF k < Len(Program("run")) THEN k ELSE Len(Program("run"))

\* C39: the commands of run are attempted in the order git add, queue, run
\* all, git add, apply; when a command before the apply fails, it is the last
\* command attempted and CalledProcessError reaches the caller
C39_RunOrder ==
    pCall = "run"
        => /\ \A k \in 1..Len(pLog) :
                 /\ pLog[k].site = RunStep(k)
                 /\ pLog[k].cmd = Program("run")[RunStep(k)]
                 /\ (~pLog[k].ok /\ ~InLoop("run", pLog[k].site))
                      => k = Len(pLog) /\ pResult = "CalledProcessError"
           /\ Program("run") =
                 <<"git add", "dvc exp run --queue", "dvc exp run --run-all",
                   "git add", "dvc exp apply">>

\* C39 witness: running the queue failed after the experiment was queued
C39_Witness ==
    /\ pCall = "run" /\ pResult = "CalledProcessError"
    /\ Len(pLog) = 3
    /\ pLog[2].cmd = "dvc exp run --queue" /\ pLog[2].ok
    /\ pLog[3].cmd = "dvc exp run --run-all" /\ ~pLog[3].ok

----------------------------------------------------------------------------
(* What a save that raises has written *)

\* C33 (as claimed): when save() raises ValueError for a field that is not
\* set, no field was handed to a plugin and no file of the node was written
C33_SaveAllOrNothing ==
    /\ [](op.name = "save" /\ op.res = "ValueError" => op.handed = <<>>)
    /\ [][(op'.name = "save" /\ op'.res = "ValueError") => disk' = disk]_vars

----------------------------------------------------------------------------
(* zntrack/core/zntrack.py: the sections of the shared internals file *)

\* the stages of the graph, by stage name
StageNames == {"MD", "MD_1", "MLThermostat"}

\* the options a node may hold
StageDicts ==
    {[thermostat |-> Single(t1), steps |-> st] : st \in StepsArgs}

\* a section of the file, and the entry of a stage that has none
Section(data) == [exists |-> TRUE, data |-> data]
NoSection == [exists |-> FALSE, data |-> serializer(descriptor_parameters(NoDict))]

\* the file without a section for any stage
NoSections == [n \in StageNames |-> NoSection]

\* a save that starts from an empty file content
save_internals_result_fresh(file, stage_name, dict) ==
    [NoSections EXCEPT
        ![stage_name] = Section(serializer(descriptor_parameters(dict)))]

\* save_internals: the content of the file is read, the section of the stage
\* is replaced, and the content is written back
save_internals_result(file, stage_name, dict) ==
    LET full_internals == file IN
    [full_internals EXCEPT
        ![stage_name] = Section(serializer(descriptor_parameters(dict)))]

InternCall(name, node) == [name |-> name, node |-> node]

InternInit ==
    /\ mFile = NoSections
    /\ mMem \in [StageNames -> StageDicts]
    /\ mOp = InternCall("none", "")

\* an option of a node is assigned in memory
set_steps(n, st) ==
    /\ mMem[n].steps # st
    /\ mMem' = [mMem EXCEPT ![n].steps = st]
    /\ mOp' = InternCall("set_steps", n)
    /\ UNCHANGED <<mFile, notIntern>>

\* post_call of the node: update_dvc, then save_internals
post_call(n) ==
    /\ mFile' = save_internals_result(mFile, n, mMem[n])
    /\ mOp' = InternCall("save_internals", n)
    /\ UNCHANGED <<mMem, notIntern>>

NextIntern ==
    \/ \E n \in StageNames, st \in StepsArgs : set_steps(n, st)
    \/ \E n \in StageNames : post_call(n)

InitIntern ==
    EarlyIdle /\ SelIdle /\ IdIdle /\ RevIdle /\ InternInit /\ HashIdle /\ TmpIdle

SpecIntern == InitIntern /\ [][NextIntern]_vars

\* C34: a save of a node writes the section of its own stage name and leaves
\* every other section as it was; the sections of the file change in no other
\* way, so every section holds what its node saved last
C34_OwnSectionOnly ==
    [][/\ mOp'.name = "save_internals"
            => /\ mFile'[mOp'.node] =
                     Section(serializer(descriptor_parameters(mMem[mOp'.node])))
               /\ \A n \in StageNames \ {mOp'.node} : mFile'[n] = mFile[n]
       /\ mOp'.name # "save_internals" => mFile' = mFile]_vars

\* C34 witness: three nodes have saved, one of them again after a change, and
\* the file holds the last save of each
C34_Witness ==
    /\ mOp = InternCall("save_internals", "MD")
    /\ \A n \in StageNames : mFile[n].exists
    /\ mFile["MD"].data.params.steps # mFile["MD_1"].data.params.steps
    /\ mMem["MD_1"].steps # mMem["MD"].steps
    /\ mMem["MLThermostat"].steps = mMem["MD"].steps
    /\ mFile["MLThermostat"].data.params.steps # mFile["MD"].data.params.steps

----------------------------------------------------------------------------
(* fields/meta: Text.save on a loaded node *)

\* a Text.save that writes whatever the state of the node is
Text_save_always(files, dict, is_loaded) ==
    [files EXCEPT !.meta = dict.text]

\* Text.save: nothing is written for a node that is loaded from disk; else
\* update_meta writes the value of the field to the meta of the stage
Text_save(files, dict, is_loaded) ==
    IF is_loaded THEN files ELSE [files EXCEPT !.meta = dict.text]

\* a node constructed in the session: its state is not loaded
Node_new_unloaded ==
    /\ lDict' = DefaultDict
    /\ lLoaded' = FALSE
    /\ lOp' = LoadCall("init", DefaultDict, "ok")
    /\ UNCHANGED <<lFiles, notLoad>>

\* Node.save of core/node.py: attr.save(self) for the field
Node_save ==
    /\ lFiles' = Text_save(lFiles, lDict, lLoaded)
    /\ lOp' = LoadCall("Node.save", lDict, "ok")
    /\ UNCHANGED <<lDict, lLoaded, notLoad>>

NextMeta ==
    \/ Node_new_unloaded
    \/ \E f \in LoadFieldNames : set_attr(f)
    \/ Node_load
    \/ Node_save

InitMeta == InitLoad

SpecMeta == InitMeta /\ [][NextMeta]_vars

\* C35: a save of a loaded node leaves dvc.yaml as it is; a node that from_rev
\* returned is loaded and stays loaded, so no save of it changes the metadata
C35_LoadedSaveWritesNothing ==
    /\ [](lOp.name = "Node.load" /\ lOp.res = "ok" => lLoaded)
    /\ [][(lOp'.name = "Node.save" /\ lLoaded) => lFiles' = lFiles]_vars
    /\ [][(lLoaded /\ lOp'.name \in {"set_attr", "Node.save"}) => lLoaded']_vars

\* C35 witness: a node from from_rev was changed in memory and saved, and the
\* metadata is what it was
C35_Witness ==
    /\ lOp.name = "Node.save"
    /\ lLoaded
    /\ lDict.text = CHANGED
    /\ lFiles.meta = SAVED

----------------------------------------------------------------------------
(* state.py: NodeStatus.get_stage_hash *)

HashCmd == "zntrack run package.Node --name Node"
DepValues == {"d0", "d1"}
ParamValues == {"p0", "p1"}
OutValues == {"o1", "o2"}
NoOut == "missing"
MetaContent == "{\"uuid\": \"u\", \"run_count\": 1}"

\* <nwd>/node-meta.json: no node working directory, no file, a file
NoDir == [dir |-> FALSE, exists |-> FALSE, content |-> ""]
NoFile == [dir |-> TRUE, exists |-> FALSE, content |-> ""]
File(content) == [dir |-> TRUE, exists |-> TRUE, content |-> content]
MetaFiles == {NoDir, NoFile, File(MetaContent)}

\* the stage in the workspace: its command, dependencies, parameters, outputs
Stages ==
    [cmd : {HashCmd}, deps : DepValues, params : ParamValues,
     outs : OutValues \cup {NoOut}]

\* to_single_stage_lockfile: the entries of the stage; node-meta.json is one
\* of the outputs of the stage
get_stage_lock(stage, meta) ==
    [cmd |-> stage.cmd, deps |-> stage.deps, params |-> stage.params,
     outs |-> [data |-> stage.outs, meta |-> meta.content]]

\* a filter that keeps every entry of the lock
filtered_lock_all(stage_lock) == stage_lock

filtered_lock(stage_lock) ==
    [k \in (DOMAIN stage_lock) \cap {"cmd", "deps", "params"} |-> stage_lock[k]]

\* the digest stands for the content it is computed from
dict_sha256(d) == <<"sha256", d>>
NoHash == <<>>

\* pathlib touch: a missing file is created empty, an existing one is kept
touch(file) == IF file.exists THEN file ELSE File("")

\* a get_stage_hash whose finally block removes nothing
get_stage_hash_result_keeping(file, stage, include_outs, lock_ok) ==
    IF include_outs
    THEN [file |-> file, res |-> "NotImplementedError", hash |-> NoHash]
    ELSE IF ~file.dir
    THEN [file |-> file, res |-> "FileNotFoundError", hash |-> NoHash]
    ELSE LET touched == touch(file)
         IN  IF lock_ok
             THEN [file |-> touched, res |-> "ok",
                   hash |-> dict_sha256(filtered_lock(get_stage_lock(stage, touched)))]
             ELSE [file |-> touched, res |-> "error", hash |-> NoHash]

\* get_stage_hash: the file after the call, how the call ended, the hash
get_stage_hash_result(file, stage, include_outs, lock_ok) ==
    IF include_outs
    THEN [file |-> file, res |-> "NotImplementedError", hash |-> NoHash]
    ELSE IF ~file.dir
    THEN [file |-> file, res |-> "FileNotFoundError", hash |-> NoHash]
    ELSE LET touched == touch(file)
             content == touched.content
             after == IF content = "" THEN NoFile ELSE touched
         IN  IF lock_ok
             THEN [file |-> after, res |-> "ok",
                   hash |-> dict_sha256(filtered_lock(get_stage_lock(stage, touched)))]
             ELSE [file |-> after, res |-> "error", hash |-> NoHash]

HashCall(name, res, hash, lock) ==
    [name |-> name, res |-> res, hash |-> hash, lock |-> lock]

NoTag == [exists |-> FALSE, hash |-> NoHash, lock |-> <<>>]

HashInit ==
    /\ hFile \in MetaFiles
    /\ hLock \in {st \in Stages : st.outs = NoOut}
    /\ hOp = HashCall("none", "ok", NoHash, <<>>)
    /\ hTag = NoTag

\* the user changes a parameter of the node
hash_set_params(v) ==
    /\ hLock' = [hLock EXCEPT !.params = v]
    /\ hOp' = HashCall("set_params", "ok", NoHash, <<>>)
    /\ UNCHANGED <<hFile, hTag, notHash>>

\* a dependency of the node changes
hash_set_deps(v) ==
    /\ hLock' = [hLock EXCEPT !.deps = v]
    /\ hOp' = HashCall("set_deps", "ok", NoHash, <<>>)
    /\ UNCHANGED <<hFile, hTag, notHash>>

\* the node runs: update_run_count writes node-meta.json, the stage hash is
\* recorded, the run writes the outputs
hash_run(out) ==
    LET written == File(MetaContent)
        r == get_stage_hash_result(written, hLock, FALSE, TRUE)
    IN  /\ hFile' = r.file
        /\ hTag' = [exists |-> TRUE, hash |-> r.hash,
                    lock |-> get_stage_lock(hLock, written)]
        /\ hLock' = [hLock EXCEPT !.outs = out]
        /\ hOp' = HashCall("run", "ok", r.hash, get_stage_lock(hLock, written))
        /\ UNCHANGED notHash

\* the node working directory is removed, or created empty
hash_clean(file) ==
    /\ file \in {NoDir, NoFile}
    /\ hFile' = file
    /\ hLock' = [hLock EXCEPT !.outs = NoOut]
    /\ hOp' = HashCall("clean", "ok", NoHash, <<>>)
    /\ UNCHANGED <<hTag, notHash>>

get_stage_hash(include_outs, lock_ok) ==
    LET r == get_stage_hash_result(hFile, hLock, include_outs, lock_ok)
    IN  /\ hFile' = r.file
        /\ hOp' = HashCall("get_stage_hash", r.res, r.hash,
                           get_stage_lock(hLock, touch(hFile)))
        /\ UNCHANGED <<hLock, hTag, notHash>>

NextHash ==
    \/ \E v \in ParamValues : hash_set_params(v)
    \/ \E v \in DepValues : hash_set_deps(v)
    \/ \E out \in OutValues : hash_run(out)
    \/ \E file \in MetaFiles : hash_clean(file)
    \/ \E include_outs \in BOOLEAN, lock_ok \in BOOLEAN :
          get_stage_hash(include_outs, lock_ok)

InitHash ==
    EarlyIdle /\ SelIdle /\ IdIdle /\ RevIdle /\ InternIdle /\ HashInit /\ TmpIdle

SpecHash == InitHash /\ [][NextHash]_vars

C37_HashOfCmdDepsParams ==
    (/\ hOp.name = "get_stage_hash"
     /\ hOp.res = "ok"
     /\ hTag.exists
     /\ hTag.lock.cmd = hOp.lock.cmd
     /\ hTag.lock.deps = hOp.lock.deps
     /\ hTag.lock.params = hOp.lock.params)
    => hOp.hash = hTag.hash

\* C37 witness: the outs of the lock differ from those of the run, the hash
\* is the recorded one
C37_Witness ==
    /\ hOp.name = "get_stage_hash"
    /\ hOp.res = "ok"
    /\ hTag.exists
    /\ hTag.lock.outs # hOp.lock.outs
    /\ hOp.hash = hTag.hash

----------------------------------------------------------------------------
(* state.py: NodeStatus.use_tmp_path *)

MaxDepth == 2

\* the entry "tmp_path" of __dict__["state"]: no such key, None, a directory
NoKey == [key |-> FALSE, none |-> TRUE, dir |-> 0]
NoPath == [key |-> TRUE, none |-> TRUE, dir |-> 0]
Path(tmpdir) == [key |-> TRUE, none |-> FALSE, dir |-> tmpdir]

\* NodeStatus.to_dict of a new status: every field, tmp_path is None
to_dict(name, remote, rev, run_count, status, lazy_evaluation) ==
    [name |-> name, remote |-> remote, rev |-> rev, run_count |-> run_count,
     state |-> status, lazy_evaluation |-> lazy_evaluation, tmp_path |-> NoPath]

\* the states Node.state and Node.from_rev store in __dict__["state"]
TmpStates ==
    {st \in
        {to_dict("Node", remote, rev, run_count, status, lazy_evaluation) :
            remote \in Remotes, rev \in RevArgs, run_count \in {0, 1},
            status \in {CREATED, RUNNING, FINISHED},
            lazy_evaluation \in BOOLEAN} :
        st.state = CREATED =>
            st.remote = "." /\ st.rev = NONE /\ st.run_count = 0 /\ st.lazy_evaluation}

\* NodeStatus(**__dict__["state"]).tmp_path is a directory that exists
tmp_path_is_tmpdir(st, dirs) ==
    /\ st.tmp_path.key
    /\ ~st.tmp_path.none
    /\ st.tmp_path.dir \in dirs

\* NodeStatus(**__dict__["state"]).tmp_path is None
tmp_path_unset(st) == st.tmp_path.key => st.tmp_path.none

\* the entries of the state other than tmp_path
other_entries(st) ==
    [k \in (DOMAIN st) \ {"tmp_path"} |-> st[k]]

TmpCall(name, res) == [name |-> name, res |-> res]

TmpInit ==
    /\ tState \in TmpStates
    /\ tScopes = <<>>
    /\ tDirs = {}
    /\ tOp = TmpCall("none", "ok")

\* entering `with node.state.use_tmp_path(path):`
use_tmp_path_enter(path) ==
    IF path # NONE
    THEN /\ tOp' = TmpCall("enter", "NotImplementedError")
         /\ UNCHANGED <<tState, tScopes, tDirs, notTmp>>
    ELSE /\ Len(tScopes) < MaxDepth
         /\ LET tmpdir == Len(tScopes) + 1
            IN  /\ tDirs' = tDirs \cup {tmpdir}
                /\ tState' = [tState EXCEPT !.tmp_path = Path(tmpdir)]
                /\ tScopes' = Append(tScopes, tmpdir)
         /\ tOp' = TmpCall("enter", "ok")
         /\ UNCHANGED notTmp

\* leaving the innermost scope, at the end of its body or by an exception of
\* the body: the finally block pops the key, the directory is removed
use_tmp_path_exit(raised) ==
    /\ tScopes # <<>>
    /\ LET tmpdir == tScopes[Len(tScopes)]
       IN  /\ tScopes' = SubSeq(tScopes, 1, Len(tScopes) - 1)
           /\ tDirs' = tDirs \ {tmpdir}
    /\ IF tState.tmp_path.key
       THEN /\ tState' = [tState EXCEPT !.tmp_path = NoKey]
            /\ tOp' = TmpCall("exit", IF raised THEN "raised" ELSE "ok")
       ELSE /\ tState' = tState
            /\ tOp' = TmpCall("exit", "KeyError")
    /\ UNCHANGED notTmp

NextTmp ==
    \/ \E path \in {NONE, "custom"} : use_tmp_path_enter(path)
    \/ \E raised \in BOOLEAN : use_tmp_path_exit(raised)

InitTmp ==
    EarlyIdle /\ SelIdle /\ IdIdle /\ RevIdle /\ InternIdle /\ HashIdle /\ TmpInit

SpecTmp == InitTmp /\ [][NextTmp]_vars

\* C38: inside a scope tmp_path is a temporary directory; leaving a scope
\* unsets it, raises nothing of its own and changes no other entry; a custom
\* path raises NotImplementedError and changes nothing
C38_ScopedTmpPath ==
    /\ [](tScopes # <<>> => tmp_path_is_tmpdir(tState, tDirs))
    /\ [](tOp.name = "exit" => tmp_path_unset(tState) /\ tOp.res # "KeyError")
    /\ [][other_entries(tState') = other_entries(tState)]_vars
    /\ [][tOp'.res = "NotImplementedError" => tState' = tState]_vars

====
